---- MODULE Spec2Model ----
(***************************************************************************)
(* SpinEscape (www/js/game.js): the projectile pool, the scoring engine    *)
(* and the frame loop of GameEngine, as a state machine.                   *)
(*                                                                         *)
(* Units.  Times are integer milliseconds (performance.now(), deltaTime,   *)
(* spawnTimer).  Positions are integer milli-pixels, velocities integer    *)
(* pixels per second, so that x += vx * deltaTime is exact.  Angles are    *)
(* integer micro-radians with Pi == 3141592.  currentSpawnRate is in       *)
(* microseconds.                                                           *)
(*                                                                         *)
(* The specifications share the definitions:                               *)
(*   Spec           - the program as it runs: frames of gameLoop and the   *)
(*                    Cordova pause / backbutton events;                   *)
(*   ApiSpec        - the collision and scoring methods of GameEngine      *)
(*                    called one at a time with arguments from small sets; *)
(*   PoolSpec       - the methods of ProjectilePool called one at a time;  *)
(*   ScoreSpec      - the scoring methods over long combos;                *)
(*   GridSpec       - checkCollisions over more than ten projectiles;      *)
(*   StallSpec      - gameLoop under a clock that repeats and stalls;      *)
(*   DifficultySpec - a long session on the hardest setting;               *)
(*   SweepSpec      - updateProjectiles over projectiles that leave the    *)
(*                    screen;                                              *)
(*   RotorSpec      - the rotor turned and asked about angles;             *)
(*   ScenarioSpec   - projectiles placed at PI / 8 and 3 PI / 8;           *)
(*   PauseSpec      - a session that is paused and resumed;                *)
(*   SpawnSpec      - spawnProjectile over the edges of the playfield;     *)
(*   TurnSpec       - the rotor turned towards touches on all sides;       *)
(*   CoastSpec      - the rotor after the finger is lifted;                *)
(*   EndSpec        - sessions that end with a score of any size;          *)
(*   BoardSpec      - the leaderboard under saveScore calls;               *)
(*   SettingsSpec   - sessions with visits to the settings screen.         *)
(*                                                                         *)
(* localStorage holds the leaderboard, the high score record and the       *)
(* player statistics; of the statistics those computed from the score.     *)
(***************************************************************************)
EXTENDS Integers, Sequences, FiniteSets, TLC

VARIABLES
    currentState,            \* GameEngine.currentState
    score,                   \* GameEngine.score
    combo,                   \* GameEngine.combo
    comboMultiplier,         \* GameEngine.comboMultiplier
    sessionBest,             \* GameEngine.sessionBest
    highScore,               \* GameEngine.highScore
    gameCount,               \* GameEngine.gameCount
    localStorage,            \* window.localStorage: the items the game keeps
    spawnTimer,              \* GameEngine.spawnTimer (ms)
    currentSpawnRate,        \* GameEngine.currentSpawnRate (microseconds)
    currentProjectileSpeed,  \* GameEngine.currentProjectileSpeed (px/s)
    difficulty,              \* GameEngine.difficulty
    player,                  \* GameEngine.player (NoPlayer = null)
    lastTime,                \* GameEngine.lastTime (ms)
    deltaTime,               \* GameEngine.deltaTime (ms)
    now,                     \* the last sample of performance.now() (ms)
    pool,                    \* ProjectilePool.pool: the free list
    active,                  \* ProjectilePool.active
    proj,                    \* the fields of every Projectile instance
    created,                 \* number of Projectile instances constructed
    log,                     \* the calls made by the last step, in order:
                             \* <<method, instance, flag>>
    menuFrames               \* number of frames run outside PLAYING so far

vars == <<currentState, score, combo, comboMultiplier, sessionBest, highScore,
          gameCount, localStorage, spawnTimer, currentSpawnRate, currentProjectileSpeed, difficulty, player,
          lastTime, deltaTime, now, pool, active, proj, created, log,
          menuFrames>>

----------------------------------------------------------------------------
(* Bounds of the model *)

\* ProjectilePool(50) in GameEngine's constructor, scaled down
InitialSize == 1
\* no more than this many Projectile instances are ever constructed
MaxInstances == 3
\* no more than this many are constructed in ApiSpec and PoolSpec
ApiMaxInstances == 2
\* frames stop when the clock reaches this value (ms)
MaxClock == 5000
\* no more than this many frames are run outside PLAYING
MaxMenuFrames == 3
\* sessions that end before the methods are no longer called
MaxGames == 1
\* handleDodge is not called beyond this combo in ScoreSpec
MaxCombo == 52
\* handleDodge is not called beyond this combo in ApiSpec
ApiMaxCombo == 2
\* the clock of ApiSpec stops here (ms)
ApiMaxClock == 200
\* no more than this many instances are constructed in GridSpec
GridMaxInstances == 11
\* the clock of StallSpec stops here (ms)
StallMaxClock == 600
\* the clock of DifficultySpec stops here (ms)
DifficultyMaxClock == 30000
\* no more than this many instances are constructed in DifficultySpec
DifficultyMaxInstances == 5
\* the clock of RotorSpec stops here (ms)
RotorMaxClock == 165
\* the clock of ScenarioSpec stops here (ms)
ScenarioMaxClock == 400
\* the clock of PauseSpec stops here (ms)
PauseMaxClock == 1100
\* PauseSpec has no regular 33 ms frame from this time on (ms)
PauseRegularUntil == 99
\* the clock of TurnSpec stops here (ms)
TurnMaxClock == 99
\* the clock of CoastSpec stops here (ms)
CoastMaxClock == 1386
\* CoastSpec has no finger on the screen from this time on (ms)
CoastTouchUntil == 66
\* no more than this many sessions end in EndSpec
EndMaxGames == 3
\* frames stop when the clock reaches this value in SettingsSpec (ms)
SettingsMaxClock == 4500

----------------------------------------------------------------------------
(* Program constants *)

GAME_WIDTH == 800
GAME_HEIGHT == 1280
\* Player.radius
PlayerRadius == 30
\* Projectile.radius
ProjectileRadius == 12
\* checkCollisions: timeSinceSpawn < 200
GracePeriod == 200
\* gameLoop: Math.min(this.deltaTime, 0.033)
MaxDeltaTime == 33
\* checkCollisions: activeProjectiles.length > 10
GridThreshold == 10
\* handleDodge: const basePoints = 10
BasePoints == 10
\* updateComboMultiplier: Math.min(this.comboMultiplier, 5)
MaxMultiplier == 5
\* GameEngine.baseSpawnRate = 1.5 s, in microseconds
BaseSpawnRate == 1500000
\* updateDifficulty: Math.max(this.currentSpawnRate, 0.3), in microseconds
MinSpawnRate == 300000
\* GameEngine.baseProjectileSpeed
BaseProjectileSpeed == 200
\* updateDifficulty: Math.min(this.currentProjectileSpeed, 500)
MaxProjectileSpeed == 500
\* Projectile.update / updateProjectiles: the off-screen margin
OffscreenMargin == 50
\* spawnProjectile: spawn points lie this far outside the playfield
SpawnMargin == 20
\* Math.PI in micro-radians
Pi == 3141592
TwoPi == 2 * Pi

GameStates == {"MENU", "PLAYING", "PAUSED", "GAME_OVER", "LEVEL_UP",
               "SETTINGS", "HOW_TO_PLAY"}
Difficulties == {"easy", "medium", "hard", "extreme"}
NoPlayer == [none |-> TRUE]
NoTouch == [none |-> TRUE]
Ids == 1..MaxInstances

----------------------------------------------------------------------------
(* Arithmetic helpers *)

Abs(n) == IF n < 0 THEN -n ELSE n
Min(a, b) == IF a < b THEN a ELSE b
Max(a, b) == IF a > b THEN a ELSE b
\* integer division rounding toward zero (fixed-point stand-in for float /)
DivTrunc(a, b) == IF a >= 0 THEN a \div b ELSE -((-a) \div b)
\* Math.sqrt on the integers the model uses (floor of the root)
ISqrt(n) == CHOOSE r \in 0..2000 : r * r <= n /\ (r + 1) * (r + 1) > n
\* Math.floor(a / b) for b > 0
FloorDiv(a, b) == a \div b
Px(n) == n * 1000

\* Array.prototype.indexOf on a sequence: first position of e, 0 if absent
IndexOf(s, e) ==
    IF \E i \in 1..Len(s) : s[i] = e
    THEN CHOOSE i \in 1..Len(s) : s[i] = e /\ \A j \in 1..(i - 1) : s[j] # e
    ELSE 0
\* Array.prototype.splice(index, 1)
Splice(s, i) == SubSeq(s, 1, i - 1) \o SubSeq(s, i + 1, Len(s))
Range(s) == {s[i] : i \in 1..Len(s)}

\* Math.atan2(dy, dx) in micro-radians, for the directions the model uses:
\* the axes, the 3-4-5 directions (atan(4/3) = 0.927295, atan(3/4) = 0.643501)
\* and the directions of PI / 8 and 3 PI / 8 (tan(PI / 8) = 5741 / 13860)
AtanFirstQuadrant(ady, adx) ==
    CASE ady = 0 -> 0
      [] adx = 0 -> Pi \div 2
      [] 3 * ady = 4 * adx -> 927295
      [] 4 * ady = 3 * adx -> 643501
      [] 13860 * ady = 5741 * adx -> Pi \div 8
      [] 5741 * ady = 13860 * adx -> (3 * Pi) \div 8
Atan2(dy, dx) ==
    IF dx = 0 /\ dy = 0 THEN 0
    ELSE LET a == AtanFirstQuadrant(Abs(dy), Abs(dx))
         IN  IF dx >= 0 /\ dy >= 0 THEN a
             ELSE IF dx < 0 /\ dy >= 0 THEN Pi - a
             ELSE IF dx < 0 THEN a - Pi
             ELSE -a

----------------------------------------------------------------------------
\* localStorage with no item of the game: loadHighScores() finds no scores,
\* loadHighScore() and getPlayerStats() return their defaults
EmptyStorage ==
    [HighScores |-> <<>>,
     HighScore |-> [highScore |-> 0, timestamp |-> 0, gameCount |-> 0],
     Stats |-> [totalGamesPlayed |-> 0, totalScore |-> 0, averageScore |-> 0,
                bestScore |-> 0]]

----------------------------------------------------------------------------
(* The state as one record, so that a handler is a function on it *)

World ==
    [currentState |-> currentState, score |-> score, combo |-> combo,
     comboMultiplier |-> comboMultiplier, sessionBest |-> sessionBest,
     highScore |-> highScore, gameCount |-> gameCount,
     localStorage |-> localStorage,
     spawnTimer |-> spawnTimer, currentSpawnRate |-> currentSpawnRate,
     currentProjectileSpeed |-> currentProjectileSpeed,
     difficulty |-> difficulty, player |-> player, lastTime |-> lastTime,
     deltaTime |-> deltaTime, now |-> now, pool |-> pool, active |-> active,
     proj |-> proj, created |-> created, log |-> <<>>]

Commit(w) ==
    /\ currentState' = w.currentState
    /\ score' = w.score
    /\ combo' = w.combo
    /\ comboMultiplier' = w.comboMultiplier
    /\ sessionBest' = w.sessionBest
    /\ highScore' = w.highScore
    /\ gameCount' = w.gameCount
    /\ localStorage' = w.localStorage
    /\ spawnTimer' = w.spawnTimer
    /\ currentSpawnRate' = w.currentSpawnRate
    /\ currentProjectileSpeed' = w.currentProjectileSpeed
    /\ difficulty' = w.difficulty
    /\ player' = w.player
    /\ lastTime' = w.lastTime
    /\ deltaTime' = w.deltaTime
    /\ now' = w.now
    /\ pool' = w.pool
    /\ active' = w.active
    /\ proj' = w.proj
    /\ created' = w.created
    /\ log' = w.log

Logged(w, e) == [w EXCEPT !.log = Append(@, e)]

----------------------------------------------------------------------------
(* Projectile *)

\* Projectile.reset(x, y, targetX, targetY, speed); t is performance.now()
ProjectileReset(x, y, targetX, targetY, speed, t) ==
    LET dx == (targetX - x) \div 1000
        dy == (targetY - y) \div 1000
        distance == ISqrt(dx * dx + dy * dy)
    IN  [x |-> x, y |-> y, speed |-> speed, active |-> TRUE,
         dodged |-> FALSE, spawnTime |-> t,
         vx |-> IF distance > 0 THEN DivTrunc(dx * speed, distance) ELSE 0,
         vy |-> IF distance > 0 THEN DivTrunc(dy * speed, distance) ELSE 0]

\* new Projectile(): the constructor calls reset(0, 0, 0, 0, 0)
NewProjectile(t) == ProjectileReset(0, 0, 0, 0, 0, t)

\* the off-screen test of Projectile.update and updateProjectiles
OffScreen(p) ==
    \/ p.x < Px(-OffscreenMargin)
    \/ p.x > Px(GAME_WIDTH + OffscreenMargin)
    \/ p.y < Px(-OffscreenMargin)
    \/ p.y > Px(GAME_HEIGHT + OffscreenMargin)

\* Projectile.update(deltaTime)
ProjectileUpdate(p) ==
    IF ~p.active THEN p
    ELSE IF OffScreen(p) THEN [p EXCEPT !.active = FALSE]
    ELSE p

----------------------------------------------------------------------------
(* ProjectilePool *)

\* acquire that leaves the reused instance in the free list
AcquireNoPop(w, x, y, targetX, targetY, speed) ==
    LET reuse == Len(w.pool) > 0
        id == IF reuse THEN w.pool[Len(w.pool)] ELSE w.created + 1
    IN  Logged([w EXCEPT
                  !.created = IF reuse THEN @ ELSE @ + 1,
                  !.proj = [@ EXCEPT ![id] =
                      ProjectileReset(x, y, targetX, targetY, speed, w.now)],
                  !.active = Append(@, id)],
               <<"acquire", id, reuse>>)

\* acquire that reuses only when at least two instances are free
AcquireFreshEarly(w, x, y, targetX, targetY, speed) ==
    LET reuse == Len(w.pool) > 1
        id == IF reuse THEN w.pool[Len(w.pool)] ELSE w.created + 1
    IN  Logged([w EXCEPT
                  !.pool = IF reuse THEN SubSeq(@, 1, Len(@) - 1) ELSE @,
                  !.created = IF reuse THEN @ ELSE @ + 1,
                  !.proj = [@ EXCEPT ![id] =
                      ProjectileReset(x, y, targetX, targetY, speed, w.now)],
                  !.active = Append(@, id)],
               <<"acquire", id, reuse>>)

\* ProjectilePool.acquire(x, y, targetX, targetY, speed)
Acquire(w, x, y, targetX, targetY, speed) ==
    LET reuse == Len(w.pool) > 0
        id == IF reuse THEN w.pool[Len(w.pool)] ELSE w.created + 1
    IN  Logged([w EXCEPT
                  !.pool = IF reuse THEN SubSeq(@, 1, Len(@) - 1) ELSE @,
                  !.created = IF reuse THEN @ ELSE @ + 1,
                  !.proj = [@ EXCEPT ![id] =
                      ProjectileReset(x, y, targetX, targetY, speed, w.now)],
                  !.active = Append(@, id)],
               <<"acquire", id, reuse>>)

\* release without the index !== -1 test: splice(-1, 1) drops the last
\* active instance and the argument is pushed on the free list regardless
ReleaseUnguarded(w, id) ==
    LET index == IndexOf(w.active, id)
        at == IF index # 0 THEN index ELSE Len(w.active)
    IN  Logged([w EXCEPT !.active = IF at = 0 THEN @ ELSE Splice(@, at),
                         !.proj = [@ EXCEPT ![id].active = FALSE],
                         !.pool = Append(@, id)],
               <<"release", id, index # 0>>)

\* ProjectilePool.release(projectile)
Release(w, id) ==
    LET index == IndexOf(w.active, id)
    IN  IF index # 0
        THEN Logged([w EXCEPT !.active = Splice(@, index),
                              !.proj = [@ EXCEPT ![id].active = FALSE],
                              !.pool = Append(@, id)],
                    <<"release", id, TRUE>>)
        ELSE Logged(w, <<"release", id, FALSE>>)

\* ProjectilePool.clear(): while (active.length > 0) release(active[0])
RECURSIVE Clear(_)
Clear(w) ==
    IF Len(w.active) > 0 THEN Clear(Release(w, w.active[1])) ELSE w

\* ProjectilePool.update(deltaTime): backwards over the active list
RECURSIVE PoolUpdateFrom(_, _)
PoolUpdateFrom(w, i) ==
    IF i < 1 THEN w
    ELSE LET id == w.active[i]
             w1 == [w EXCEPT !.proj = [@ EXCEPT ![id] = ProjectileUpdate(@)]]
             w2 == IF ~w1.proj[id].active THEN Release(w1, id) ELSE w1
         IN  PoolUpdateFrom(w2, i - 1)
PoolUpdate(w) == PoolUpdateFrom(w, Len(w.active))

----------------------------------------------------------------------------
(* Player *)

\* Player.gapCount
GapCount == 4
\* Player.gapSize = Math.PI / 4
GapSize == Pi \div 4
\* gaps that are laid out after the solid sectors instead of before them
GapsAfterSolid ==
    [i \in 1..GapCount |->
        <<(TwoPi \div GapCount) * (i - 1) + GapSize, (TwoPi \div GapCount) * i>>]
\* Player.gaps: [gapStart, gapEnd] for i = 0 .. gapCount - 1
Gaps == [i \in 1..GapCount |->
            <<(TwoPi \div GapCount) * (i - 1),
              (TwoPi \div GapCount) * (i - 1) + GapSize>>]

\* new Player(x, y)
NewPlayer(x, y) == [x |-> x, y |-> y, angle |-> 0, rotationSpeed |-> 0]

\* while (relativeAngle < 0) relativeAngle += 2PI;
\* while (relativeAngle >= 2PI) relativeAngle -= 2PI
RECURSIVE NormalizeAngle(_)
NormalizeAngle(a) ==
    IF a < 0 THEN NormalizeAngle(a + TwoPi)
    ELSE IF a >= TwoPi THEN NormalizeAngle(a - TwoPi)
    ELSE a

\* isSolidAtAngle with relativeAngle <= gapEnd: the end of a gap is in the gap
IsSolidAtAngleEndInclusive(pl, worldAngle) ==
    LET relativeAngle == NormalizeAngle(worldAngle - pl.angle)
        InGap(g) ==
            IF g[2] > TwoPi
            THEN relativeAngle >= g[1] \/ relativeAngle <= g[2] - TwoPi
            ELSE relativeAngle >= g[1] /\ relativeAngle <= g[2]
    IN  ~(\E i \in 1..GapCount : InGap(Gaps[i]))
\* Player.isSolidAtAngle(worldAngle)
IsSolidAtAngle(pl, worldAngle) ==
    LET relativeAngle == NormalizeAngle(worldAngle - pl.angle)
        InGap(g) ==
            IF g[2] > TwoPi
            THEN relativeAngle >= g[1] \/ relativeAngle <= g[2] - TwoPi
            ELSE relativeAngle >= g[1] /\ relativeAngle < g[2]
    IN  ~(\E i \in 1..GapCount : InGap(Gaps[i]))

\* Player.maxRotationSpeed = 5 rad/s, in micro-radians per second
MaxRotationSpeed == 5000000
\* Player.rotationAcceleration
RotationAcceleration == 15
\* Player.update: rotationSpeed below 0.1 rad/s snaps to 0
RotationEpsilon == 100000

\* while (angleDiff > PI) angleDiff -= 2PI; while (angleDiff < -PI) += 2PI
RECURSIVE NormalizeDiff(_)
NormalizeDiff(d) ==
    IF d > Pi THEN NormalizeDiff(d - TwoPi)
    ELSE IF d < -Pi THEN NormalizeDiff(d + TwoPi)
    ELSE d

\* the normalisation of Player.update without its second loop
RECURSIVE WrapAngleNoSecondLoop(_)
WrapAngleNoSecondLoop(a) ==
    IF a > TwoPi THEN WrapAngleNoSecondLoop(a - TwoPi) ELSE a
\* while (angle > 2PI) angle -= 2PI; while (angle < 0) angle += 2PI
RECURSIVE WrapAngle(_)
WrapAngle(a) ==
    IF a > TwoPi THEN WrapAngle(a - TwoPi)
    ELSE IF a < 0 THEN WrapAngle(a + TwoPi)
    ELSE a

\* Player.update without the snap of a slow rotationSpeed to 0
PlayerUpdateNoSnap(pl, dt, touch) ==
    LET speed ==
            IF touch # NoTouch
            THEN LET targetAngle == Atan2(touch.y - pl.y, touch.x - pl.x)
                     angleDiff == NormalizeDiff(targetAngle - pl.angle)
                     rotationDirection == IF angleDiff > 0 THEN 1 ELSE -1
                 IN  Min(Abs(angleDiff) * RotationAcceleration,
                         MaxRotationSpeed) * rotationDirection
            ELSE DivTrunc(pl.rotationSpeed * 9, 10)
    IN  [pl EXCEPT !.rotationSpeed = speed,
                   !.angle = WrapAngle(@ + DivTrunc(speed * dt, 1000))]
\* Player.update(deltaTime, inputManager); touch is getPrimaryTouch()
PlayerUpdate(pl, dt, touch) ==
    LET speed ==
            IF touch # NoTouch
            THEN LET targetAngle == Atan2(touch.y - pl.y, touch.x - pl.x)
                     angleDiff == NormalizeDiff(targetAngle - pl.angle)
                     rotationDirection == IF angleDiff > 0 THEN 1 ELSE -1
                 IN  Min(Abs(angleDiff) * RotationAcceleration,
                         MaxRotationSpeed) * rotationDirection
            ELSE LET s == DivTrunc(pl.rotationSpeed * 9, 10)
                 IN  IF Abs(s) < RotationEpsilon THEN 0 ELSE s
    IN  [pl EXCEPT !.rotationSpeed = speed,
                   !.angle = WrapAngle(@ + DivTrunc(speed * dt, 1000))]

----------------------------------------------------------------------------
(* GameEngine: scoring *)

\* the difficultyBonuses table of addScore, in tenths
DifficultyBonus(d) ==
    CASE d = "easy" -> 10
      [] d = "medium" -> 11
      [] d = "hard" -> 12
      [] d = "extreme" -> 13
      [] OTHER -> 10

\* updateComboMultiplier without the Math.min(..., 5) line
UpdateComboMultiplierUncapped(w) ==
    [w EXCEPT !.comboMultiplier = 1 + FloorDiv(w.combo, 10)]

\* GameEngine.updateComboMultiplier()
UpdateComboMultiplier(w) ==
    [w EXCEPT !.comboMultiplier = Min(1 + FloorDiv(w.combo, 10), MaxMultiplier)]

\* Math.floor(points * comboMultiplier * difficultyBonus) of addScore
FinalPoints(basePoints, multiplier, d) ==
    FloorDiv(basePoints * multiplier * DifficultyBonus(d), 10)

\* GameEngine.addScore(basePoints)
AddScore(w, basePoints) ==
    LET newScore == w.score + FinalPoints(basePoints, w.comboMultiplier, w.difficulty)
    IN  [w EXCEPT !.score = newScore,
                  !.sessionBest = IF newScore > @ THEN newScore ELSE @]

\* GameEngine.validateScore(score)
ValidateScore(s) == ~(s > 1000000) /\ ~(s < 0)

\* DataManager.validateScore(score); every score of the model is a finite number
DataManagerValidateScore(s) ==
    IF s < 0 THEN FALSE
    ELSE IF s > 1000000 THEN FALSE
    ELSE TRUE

\* Math.floor(Date.now() / 1000), read off the clock of the model
Timestamp(w) == w.now \div 1000

\* DataManager.loadHighScores()
LoadHighScores(w) ==
    SelectSeq(w.localStorage.HighScores, LAMBDA e : e.score >= 0)

\* one entry put into a list that is in descending order, behind the entries
\* that do not compare lower
InsertByScore(sorted, e) ==
    LET before == {i \in 1..Len(sorted) : sorted[i].score >= e.score}
        k == IF before = {} THEN 0
             ELSE CHOOSE i \in before : \A j \in before : j <= i
    IN  SubSeq(sorted, 1, k) \o <<e>> \o SubSeq(sorted, k + 1, Len(sorted))

\* scores.sort((a, b) => b.score - a.score): a stable sort, descending
RECURSIVE SortByScore(_)
SortByScore(scores) ==
    IF scores = <<>> THEN <<>>
    ELSE InsertByScore(SortByScore(SubSeq(scores, 1, Len(scores) - 1)),
                       scores[Len(scores)])

\* saveScore that keeps the whole sorted list
SaveScoreNoSlice(w, s) ==
    IF ~DataManagerValidateScore(s) THEN [world |-> w, result |-> FALSE]
    ELSE LET scores == Append(LoadHighScores(w),
                              [score |-> s, timestamp |-> Timestamp(w)])
         IN  [world |-> [w EXCEPT !.localStorage.HighScores = SortByScore(scores)],
              result |-> TRUE]

\* DataManager.saveScore(score): the engine after the call and what it returns
SaveScore(w, s) ==
    IF ~DataManagerValidateScore(s) THEN [world |-> w, result |-> FALSE]
    ELSE LET scores == Append(LoadHighScores(w),
                              [score |-> s, timestamp |-> Timestamp(w)])
             sorted == SortByScore(scores)
             topScores == SubSeq(sorted, 1, Min(10, Len(sorted)))
         IN  [world |-> [w EXCEPT !.localStorage.HighScores = topScores],
              result |-> TRUE]

\* DataManager.getPlayerStats()
GetPlayerStats(w) == w.localStorage.Stats

\* DataManager.updatePlayerStats(gameResults), on the statistics of the score
UpdatePlayerStats(w, s) ==
    LET stats == GetPlayerStats(w)
        games == stats.totalGamesPlayed + 1
        total == stats.totalScore + s
    IN  [w EXCEPT !.localStorage.Stats =
            [totalGamesPlayed |-> games,
             totalScore |-> total,
             averageScore |-> IF games > 0 THEN total \div games ELSE 0,
             bestScore |-> Max(stats.bestScore, s)]]

\* GameEngine.saveHighScore(data)
SaveHighScore(w, data) == [w EXCEPT !.localStorage.HighScore = data]

\* gameOver that saves the score without validating it
GameOverUnvalidated(w) ==
    LET w1 == [w EXCEPT !.currentState = "GAME_OVER", !.gameCount = @ + 1]
        w2 == [w1 EXCEPT !.localStorage.HighScores =
                  Append(@, [score |-> w1.score, timestamp |-> Timestamp(w1)])]
        w3 == IF w2.score > w2.highScore
              THEN SaveHighScore([w2 EXCEPT !.highScore = w2.score],
                                 [highScore |-> w2.score,
                                  timestamp |-> Timestamp(w2),
                                  gameCount |-> w2.gameCount])
              ELSE w2
        w4 == UpdatePlayerStats(w3, w3.score)
        w5 == SaveHighScore(w4, [highScore |-> w4.highScore,
                                 timestamp |-> Timestamp(w4),
                                 gameCount |-> w4.gameCount])
    IN  Logged(w5, <<"gameOver", 0, TRUE>>)

\* GameEngine.gameOver()
GameOver(w) ==
    LET w1 == [w EXCEPT !.currentState = "GAME_OVER", !.gameCount = @ + 1]
        w2 == IF ValidateScore(w1.score)
              THEN LET w3 == SaveScore(w1, w1.score).world
                       w4 == IF w3.score > w3.highScore
                             THEN SaveHighScore(
                                      [w3 EXCEPT !.highScore = w3.score],
                                      [highScore |-> w3.score,
                                       timestamp |-> Timestamp(w3),
                                       gameCount |-> w3.gameCount])
                             ELSE w3
                   IN  UpdatePlayerStats(w4, w4.score)
              ELSE w1
        w5 == SaveHighScore(w2, [highScore |-> w2.highScore,
                                 timestamp |-> Timestamp(w2),
                                 gameCount |-> w2.gameCount])
    IN  Logged(w5, <<"gameOver", 0, TRUE>>)

\* handleDodge that awards the points before it recomputes the multiplier
HandleDodgeStaleMultiplier(w, id) ==
    IF w.proj[id].dodged THEN Logged(w, <<"handleDodge", id, FALSE>>)
    ELSE LET w1 == [w EXCEPT !.proj = [@ EXCEPT ![id].dodged = TRUE,
                                                ![id].active = FALSE],
                             !.combo = @ + 1]
             w2 == UpdateComboMultiplier(AddScore(w1, BasePoints))
         IN  Release(Logged(w2, <<"handleDodge", id, TRUE>>), id)

\* handleDodge without the if (projectile.dodged) return
HandleDodgeUnguarded(w, id) ==
    LET w1 == [w EXCEPT !.proj = [@ EXCEPT ![id].dodged = TRUE,
                                           ![id].active = FALSE],
                        !.combo = @ + 1]
        w2 == AddScore(UpdateComboMultiplier(w1), BasePoints)
    IN  Release(Logged(w2, <<"handleDodge", id, ~w.proj[id].dodged>>), id)

\* GameEngine.handleDodge(projectile)
HandleDodge(w, id) ==
    IF w.proj[id].dodged THEN Logged(w, <<"handleDodge", id, FALSE>>)
    ELSE LET w1 == [w EXCEPT !.proj = [@ EXCEPT ![id].dodged = TRUE,
                                                ![id].active = FALSE],
                             !.combo = @ + 1]
             w2 == AddScore(UpdateComboMultiplier(w1), BasePoints)
         IN  Release(Logged(w2, <<"handleDodge", id, TRUE>>), id)

\* handleCollision that leaves the combo as it is
HandleCollisionKeepsCombo(w, id) ==
    GameOver(Release(Logged(w, <<"handleCollision", id, TRUE>>), id))

\* GameEngine.handleCollision(projectile)
HandleCollision(w, id) ==
    LET w1 == [w EXCEPT !.combo = 0, !.comboMultiplier = 1]
    IN  GameOver(Release(Logged(w1, <<"handleCollision", id, TRUE>>), id))

\* startGame without this.projectilePool.clear()
StartGameNoClear(w) ==
    LET w1 == [w EXCEPT !.currentState = "PLAYING",
                        !.score = 0, !.combo = 0, !.comboMultiplier = 1,
                        !.spawnTimer = 0,
                        !.currentSpawnRate = BaseSpawnRate,
                        !.currentProjectileSpeed = BaseProjectileSpeed]
        w2 == Logged(w1, <<"startGame", 0, TRUE>>)
    IN  [w2 EXCEPT !.player = NewPlayer(GAME_WIDTH \div 2, GAME_HEIGHT \div 2)]

\* startGame without this.player = new Player(...)
StartGameNoPlayer(w) ==
    LET w1 == [w EXCEPT !.currentState = "PLAYING",
                        !.score = 0, !.combo = 0, !.comboMultiplier = 1,
                        !.spawnTimer = 0,
                        !.currentSpawnRate = BaseSpawnRate,
                        !.currentProjectileSpeed = BaseProjectileSpeed]
    IN  Clear(Logged(w1, <<"startGame", 0, TRUE>>))
\* GameEngine.startGame()
StartGame(w) ==
    LET w1 == [w EXCEPT !.currentState = "PLAYING",
                        !.score = 0, !.combo = 0, !.comboMultiplier = 1,
                        !.spawnTimer = 0,
                        !.currentSpawnRate = BaseSpawnRate,
                        !.currentProjectileSpeed = BaseProjectileSpeed]
        w2 == Clear(Logged(w1, <<"startGame", 0, TRUE>>))
    IN  [w2 EXCEPT !.player = NewPlayer(GAME_WIDTH \div 2, GAME_HEIGHT \div 2)]

\* baseSpawnRate * Math.pow(0.9, difficultyLevel), in microseconds
RECURSIVE SpawnRateAt(_)
SpawnRateAt(level) ==
    IF level = 0 THEN BaseSpawnRate ELSE FloorDiv(SpawnRateAt(level - 1) * 9, 10)

\* updateDifficulty without the Math.max(this.currentSpawnRate, 0.3)
UpdateDifficultyNoFloor(w) ==
    LET difficultyLevel == FloorDiv(w.score, 500)
    IN  [w EXCEPT
           !.currentSpawnRate = SpawnRateAt(difficultyLevel),
           !.currentProjectileSpeed =
               Min(BaseProjectileSpeed + difficultyLevel * 20, MaxProjectileSpeed)]
\* GameEngine.updateDifficulty()
UpdateDifficulty(w) ==
    LET difficultyLevel == FloorDiv(w.score, 500)
    IN  [w EXCEPT
           !.currentSpawnRate = Max(SpawnRateAt(difficultyLevel), MinSpawnRate),
           !.currentProjectileSpeed =
               Min(BaseProjectileSpeed + difficultyLevel * 20, MaxProjectileSpeed)]

----------------------------------------------------------------------------
(* GameEngine: the PLAYING frame *)

\* Physics.updateVelocity(object, deltaTime): projectiles carry no friction
UpdateVelocity(p, dt) == [p EXCEPT !.x = @ + p.vx * dt, !.y = @ + p.vy * dt]

\* updateProjectiles that counts a projectile that leaves the screen as dodged
RECURSIVE UpdateProjectilesFromCountsExit(_, _, _)
UpdateProjectilesFromCountsExit(w, dt, i) ==
    IF i > Len(w.active) THEN w
    ELSE LET id == w.active[i]
         IN  IF ~w.proj[id].active THEN UpdateProjectilesFromCountsExit(w, dt, i + 1)
             ELSE LET moved == UpdateVelocity(w.proj[id], dt)
                      w1 == [w EXCEPT !.proj = [@ EXCEPT ![id] = moved]]
                      w2 == IF OffScreen(moved) THEN HandleDodge(w1, id) ELSE w1
                  IN  UpdateProjectilesFromCountsExit(w2, dt, i + 1)

\* GameEngine.updateProjectiles(deltaTime): for (const projectile of
\* this.projectilePool.active) walks the live array by index, so a release
\* inside the loop shifts the rest of the array under the iterator
RECURSIVE UpdateProjectilesFrom(_, _, _)
UpdateProjectilesFrom(w, dt, i) ==
    IF i > Len(w.active) THEN w
    ELSE LET id == w.active[i]
         IN  IF ~w.proj[id].active THEN UpdateProjectilesFrom(w, dt, i + 1)
             ELSE LET moved == ProjectileUpdate(UpdateVelocity(w.proj[id], dt))
                      w1 == [w EXCEPT !.proj = [@ EXCEPT ![id] = moved]]
                      w2 == IF OffScreen(moved) THEN Release(w1, id) ELSE w1
                  IN  UpdateProjectilesFrom(w2, dt, i + 1)
\* updateProjectiles in which a projectile that leaves the screen breaks the
\* combo
UpdateProjectilesBreaksCombo(w, dt) ==
    LET w1 == UpdateProjectilesFrom(w, dt, 1)
    IN  IF Len(w1.active) < Len(w.active)
        THEN [w1 EXCEPT !.combo = 0, !.comboMultiplier = 1]
        ELSE w1

UpdateProjectiles(w, dt) == UpdateProjectilesFrom(w, dt, 1)

\* spawnProjectile: minSafeDistance = 30 + 12 + 50
MinSafeDistance == PlayerRadius + ProjectileRadius + 50

\* the point spawnProjectile draws: edge 0=top, 1=right, 2=bottom, 3=left and
\* the value of Math.random() * GAME_WIDTH (or GAME_HEIGHT) along it, in px
EdgePoint(edge, along) ==
    CASE edge = 0 -> [x |-> along, y |-> -SpawnMargin]
      [] edge = 1 -> [x |-> GAME_WIDTH + SpawnMargin, y |-> along]
      [] edge = 2 -> [x |-> along, y |-> GAME_HEIGHT + SpawnMargin]
      [] edge = 3 -> [x |-> -SpawnMargin, y |-> along]

\* the do-while loop of spawnProjectile, in px: the point it ends with and the
\* attempts it took.  A point closer than minSafeDistance is moved out along
\* the ray from the center to minSafeDistance + 50 while attempts < 5;
\* cos(atan2(dy, dx)) is dx / distance, and atan2(0, 0) is 0.  A redraw finds
\* the same value of Math.random()
RECURSIVE SpawnLoop(_, _, _)
SpawnLoop(edge, along, attemptsBefore) ==
    LET centerX == GAME_WIDTH \div 2
        centerY == GAME_HEIGHT \div 2
        pt == EdgePoint(edge, along)
        dx == pt.x - centerX
        dy == pt.y - centerY
        distanceFromCenter == ISqrt(dx * dx + dy * dy)
        attempts == attemptsBefore + 1
        tooClose == dx * dx + dy * dy < MinSafeDistance * MinSafeDistance
        newDistance == MinSafeDistance + 50
        moved == tooClose /\ attempts < 5
        spawn == IF ~moved THEN pt
                 ELSE IF dx = 0 /\ dy = 0
                 THEN [x |-> centerX + newDistance, y |-> centerY]
                 ELSE [x |-> centerX + DivTrunc(dx * newDistance, distanceFromCenter),
                       y |-> centerY + DivTrunc(dy * newDistance, distanceFromCenter)]
    IN  IF tooClose /\ ~moved /\ attempts < 10
        THEN SpawnLoop(edge, along, attempts)
        ELSE [pt |-> spawn, attempts |-> attempts]

\* the spawn point of spawnProjectile after the final clamp, in px
SpawnPoint(edge, along) ==
    LET pt == SpawnLoop(edge, along, 0).pt
    IN  [x |-> Min(Max(pt.x, -SpawnMargin), GAME_WIDTH + SpawnMargin),
         y |-> Min(Max(pt.y, -SpawnMargin), GAME_HEIGHT + SpawnMargin)]

\* spawnProjectile that hands the spawn point and the center to acquire in
\* each other's place
SpawnProjectileSwapped(w, edge, along) ==
    LET pt == SpawnPoint(edge, along)
    IN  Logged(Acquire(w, Px(GAME_WIDTH \div 2), Px(GAME_HEIGHT \div 2),
                       Px(pt.x), Px(pt.y), w.currentProjectileSpeed),
               <<"spawnProjectile", SpawnLoop(edge, along, 0).attempts, TRUE>>)

\* GameEngine.spawnProjectile(); the log keeps the attempts of the loop
SpawnProjectile(w, edge, along) ==
    LET pt == SpawnPoint(edge, along)
    IN  Logged(Acquire(w, Px(pt.x), Px(pt.y), Px(GAME_WIDTH \div 2),
                       Px(GAME_HEIGHT \div 2), w.currentProjectileSpeed),
               <<"spawnProjectile", SpawnLoop(edge, along, 0).attempts, TRUE>>)

\* the comparison this.spawnTimer >= this.currentSpawnRate
SpawnDue(timer, rate) == timer * 1000 >= rate

\* updateSpawning that keeps the time beyond currentSpawnRate on the timer
UpdateSpawningKeepsRemainder(w, dt, edge, along) ==
    LET w1 == [w EXCEPT !.spawnTimer = @ + dt]
    IN  IF SpawnDue(w1.spawnTimer, w1.currentSpawnRate)
        THEN [SpawnProjectile(w1, edge, along) EXCEPT
                 !.spawnTimer = @ - w1.currentSpawnRate \div 1000]
        ELSE w1
\* GameEngine.updateSpawning(deltaTime)
UpdateSpawning(w, dt, edge, along) ==
    LET w1 == [w EXCEPT !.spawnTimer = @ + dt]
    IN  IF SpawnDue(w1.spawnTimer, w1.currentSpawnRate)
        THEN [SpawnProjectile(w1, edge, along) EXCEPT !.spawnTimer = 0]
        ELSE w1

\* distance <= collisionRadius, on milli-pixel offsets
InCollisionRange(dx, dy) ==
    LET r == Px(PlayerRadius + ProjectileRadius)
    IN  Abs(dx) <= r /\ Abs(dy) <= r /\ dx * dx <= r * r - dy * dy

\* Physics.getNearbyObjects(player): Physics.grid is created empty and
\* buildCollisionGrid, the only writer, has no caller
GetNearbyObjects(w) == <<>>

\* this.projectilePool.active.filter(p => p.active)
ActiveFlagged(w) == SelectSeq(w.active, LAMBDA id : w.proj[id].active)

\* checkCollisions without the grace period
InGraceNever(w, id) == FALSE

\* the grace-period test of checkCollisions
InGrace(w, id) == w.now - w.proj[id].spawnTime < GracePeriod

\* the loop of checkCollisions without the break after handleCollision
RECURSIVE CollisionScanNoBreak(_, _, _)
CollisionScanNoBreak(w, list, i) ==
    IF i > Len(list) THEN w
    ELSE LET id == list[i]
             p == w.proj[id]
             dx == p.x - Px(w.player.x)
             dy == p.y - Px(w.player.y)
         IN  IF ~p.active THEN CollisionScanNoBreak(w, list, i + 1)
             ELSE IF InGrace(w, id) THEN CollisionScanNoBreak(w, list, i + 1)
             ELSE IF InCollisionRange(dx, dy)
             THEN IF IsSolidAtAngle(w.player, Atan2(dy, dx))
                  THEN CollisionScanNoBreak(HandleCollision(w, id), list, i + 1)
                  ELSE CollisionScanNoBreak(HandleDodge(w, id), list, i + 1)
             ELSE CollisionScanNoBreak(w, list, i + 1)

\* the for loop of checkCollisions over projectilesToCheck
RECURSIVE CollisionScan(_, _, _)
CollisionScan(w, list, i) ==
    IF i > Len(list) THEN w
    ELSE LET id == list[i]
             p == w.proj[id]
             dx == p.x - Px(w.player.x)
             dy == p.y - Px(w.player.y)
         IN  IF ~p.active THEN CollisionScan(w, list, i + 1)
             ELSE IF InGrace(w, id) THEN CollisionScan(w, list, i + 1)
             ELSE IF InCollisionRange(dx, dy)
             THEN IF IsSolidAtAngle(w.player, Atan2(dy, dx))
                  THEN HandleCollision(w, id)
                  ELSE CollisionScan(HandleDodge(w, id), list, i + 1)
             ELSE CollisionScan(w, list, i + 1)

\* GameEngine.checkCollisions()
CheckCollisions(w) ==
    IF w.player = NoPlayer THEN Logged(w, <<"checkCollisions", 0, FALSE>>)
    ELSE LET activeProjectiles == ActiveFlagged(w)
             projectilesToCheck ==
                 IF Len(activeProjectiles) > GridThreshold
                 THEN SelectSeq(GetNearbyObjects(w), LAMBDA id : w.proj[id].active)
                 ELSE activeProjectiles
         IN  CollisionScan(Logged(w, <<"checkCollisions", 0, TRUE>>),
                           projectilesToCheck, 1)

\* updatePlaying that spawns before it moves the projectiles and the rotor
UpdatePlayingSpawnFirst(w, dt, in) ==
    LET w1 == UpdateSpawning(w, dt, in.edge, in.along)
        w2 == UpdateProjectiles(w1, dt)
        w3 == IF w2.player # NoPlayer
              THEN [w2 EXCEPT !.player = PlayerUpdate(@, dt, in.touch)]
              ELSE w2
        w4 == CheckCollisions(w3)
    IN  UpdateDifficulty(w4)

\* GameEngine.updatePlaying(deltaTime)
UpdatePlaying(w, dt, in) ==
    LET w1 == IF w.player # NoPlayer
              THEN [w EXCEPT !.player = PlayerUpdate(@, dt, in.touch)]
              ELSE w
        w2 == UpdateProjectiles(w1, dt)
        w3 == UpdateSpawning(w2, dt, in.edge, in.along)
        w4 == CheckCollisions(w3)
    IN  UpdateDifficulty(w4)

----------------------------------------------------------------------------
(* GameEngine: the screens *)

Button(x, y, width, height) == [x |-> x, y |-> y, width |-> width, height |-> height]
PlayButton == Button(GAME_WIDTH \div 2 - 150, 480, 300, 80)
SettingsButton == Button(GAME_WIDTH \div 2 - 100, GAME_HEIGHT - 100, 200, 60)
HowToPlayButton == Button(GAME_WIDTH \div 2 - 150, 560, 300, 70)
RetryButton == Button(GAME_WIDTH \div 2 - 150, GAME_HEIGHT \div 2 + 100, 300, 80)
MainMenuButton == Button(GAME_WIDTH \div 2 - 150, GAME_HEIGHT \div 2 + 200, 300, 70)
ResumeButton == Button(GAME_WIDTH \div 2 - 150, GAME_HEIGHT \div 2 - 50, 300, 80)
PauseSettingsButton == Button(GAME_WIDTH \div 2 - 150, GAME_HEIGHT \div 2 + 50, 300, 70)
QuitButton == Button(GAME_WIDTH \div 2 - 150, GAME_HEIGHT \div 2 + 150, 300, 70)
BackButton == Button(GAME_WIDTH \div 2 - 150, GAME_HEIGHT - 220, 300, 70)
ResetDataButton == Button(GAME_WIDTH \div 2 - 150, GAME_HEIGHT - 130, 300, 60)
SoundButton == Button(GAME_WIDTH \div 2 - 200, 200, 400, 70)
VibrationButton == Button(GAME_WIDTH \div 2 - 200, 300, 400, 70)
DifficultyOrder == <<"easy", "medium", "hard", "extreme">>
DifficultyButton(d) ==
    LET buttonWidth == 150
        spacing == 20
        startX == (GAME_WIDTH - (buttonWidth * 4 + spacing * 3)) \div 2
        index == IndexOf(DifficultyOrder, d) - 1
    IN  Button(startX + (buttonWidth + spacing) * index, 550, buttonWidth, 60)

\* GameEngine.isPointInButton(x, y, button)
IsPointInButton(t, b) ==
    t.x >= b.x /\ t.x <= b.x + b.width /\ t.y >= b.y /\ t.y <= b.y + b.height

\* wasJustPressed && touch
Tapped(in) == in.wasJustPressed /\ in.touch # NoTouch
BackKey(in) == "Escape" \in in.keys \/ "Backspace" \in in.keys

\* GameEngine.updateMenu(deltaTime)
UpdateMenu(w, in) ==
    IF Tapped(in) /\ IsPointInButton(in.touch, SettingsButton)
    THEN [w EXCEPT !.currentState = "SETTINGS"]
    ELSE IF Tapped(in) /\ IsPointInButton(in.touch, HowToPlayButton)
    THEN [w EXCEPT !.currentState = "HOW_TO_PLAY"]
    ELSE IF Tapped(in) /\ IsPointInButton(in.touch, PlayButton)
    THEN StartGame(w)
    ELSE IF in.wasJustPressed \/ "Space" \in in.keys
    THEN StartGame(w)
    ELSE w

\* updatePaused that still moves the projectiles
UpdatePausedMovesProjectiles(w, in) ==
    LET w1 == UpdateProjectiles(w, w.deltaTime)
    IN  IF Tapped(in) /\ IsPointInButton(in.touch, ResumeButton)
        THEN [w1 EXCEPT !.currentState = "PLAYING"]
        ELSE IF Tapped(in) /\ IsPointInButton(in.touch, PauseSettingsButton)
        THEN [w1 EXCEPT !.currentState = "SETTINGS"]
        ELSE IF Tapped(in) /\ IsPointInButton(in.touch, QuitButton)
        THEN [w1 EXCEPT !.currentState = "MENU"]
        ELSE IF "Space" \in in.keys \/ BackKey(in)
        THEN [w1 EXCEPT !.currentState = "PLAYING"]
        ELSE w1
\* GameEngine.updatePaused(deltaTime)
UpdatePaused(w, in) ==
    IF Tapped(in) /\ IsPointInButton(in.touch, ResumeButton)
    THEN [w EXCEPT !.currentState = "PLAYING"]
    ELSE IF Tapped(in) /\ IsPointInButton(in.touch, PauseSettingsButton)
    THEN [w EXCEPT !.currentState = "SETTINGS"]
    ELSE IF Tapped(in) /\ IsPointInButton(in.touch, QuitButton)
    THEN [w EXCEPT !.currentState = "MENU"]
    ELSE IF "Space" \in in.keys \/ BackKey(in)
    THEN [w EXCEPT !.currentState = "PLAYING"]
    ELSE w

\* GameEngine.updateGameOver(deltaTime); the share button changes no state
UpdateGameOver(w, in) ==
    IF Tapped(in) /\ IsPointInButton(in.touch, RetryButton)
    THEN StartGame(w)
    ELSE IF Tapped(in) /\ IsPointInButton(in.touch, MainMenuButton)
    THEN [w EXCEPT !.currentState = "MENU"]
    ELSE w

\* GameEngine.updateLevelUp(deltaTime)
UpdateLevelUp(w, in) ==
    IF in.wasJustPressed \/ "Space" \in in.keys
    THEN [w EXCEPT !.currentState = "PLAYING"]
    ELSE w

\* GameEngine.resetAllData(), then loadGameSettings() on the emptied storage
ResetAllData(w) ==
    [w EXCEPT !.sessionBest = 0, !.difficulty = "medium", !.highScore = 0,
              !.gameCount = 0, !.localStorage = EmptyStorage]

\* updateSettings whose Back button returns to the pause screen of a session
UpdateSettingsBackToPause(w, in) ==
    IF Tapped(in) /\ IsPointInButton(in.touch, BackButton)
    THEN [w EXCEPT !.currentState = IF w.player # NoPlayer THEN "PAUSED" ELSE "MENU"]
    ELSE IF Tapped(in) /\ (IsPointInButton(in.touch, SoundButton)
                           \/ IsPointInButton(in.touch, VibrationButton))
    THEN w
    ELSE IF Tapped(in) /\ \E d \in Difficulties : IsPointInButton(in.touch, DifficultyButton(d))
    THEN [w EXCEPT !.difficulty =
             DifficultyOrder[CHOOSE i \in 1..4 :
                 /\ IsPointInButton(in.touch, DifficultyButton(DifficultyOrder[i]))
                 /\ \A j \in 1..(i - 1) :
                      ~IsPointInButton(in.touch, DifficultyButton(DifficultyOrder[j]))]]
    ELSE IF Tapped(in) /\ IsPointInButton(in.touch, ResetDataButton)
    THEN IF in.confirm THEN ResetAllData(w) ELSE w
    ELSE IF BackKey(in)
    THEN [w EXCEPT !.currentState = "MENU"]
    ELSE w
\* GameEngine.updateSettings(deltaTime); in.confirm is the answer to confirm()
UpdateSettings(w, in) ==
    IF Tapped(in) /\ IsPointInButton(in.touch, BackButton)
    THEN [w EXCEPT !.currentState = "MENU"]
    ELSE IF Tapped(in) /\ (IsPointInButton(in.touch, SoundButton)
                           \/ IsPointInButton(in.touch, VibrationButton))
    THEN w
    ELSE IF Tapped(in) /\ \E d \in Difficulties : IsPointInButton(in.touch, DifficultyButton(d))
    THEN [w EXCEPT !.difficulty =
             DifficultyOrder[CHOOSE i \in 1..4 :
                 /\ IsPointInButton(in.touch, DifficultyButton(DifficultyOrder[i]))
                 /\ \A j \in 1..(i - 1) :
                      ~IsPointInButton(in.touch, DifficultyButton(DifficultyOrder[j]))]]
    ELSE IF Tapped(in) /\ IsPointInButton(in.touch, ResetDataButton)
    THEN IF in.confirm THEN ResetAllData(w) ELSE w
    ELSE IF BackKey(in)
    THEN [w EXCEPT !.currentState = "MENU"]
    ELSE w

\* GameEngine.updateHowToPlay(deltaTime)
UpdateHowToPlay(w, in) ==
    IF Tapped(in) /\ IsPointInButton(in.touch, BackButton)
    THEN [w EXCEPT !.currentState = "MENU"]
    ELSE IF BackKey(in)
    THEN [w EXCEPT !.currentState = "MENU"]
    ELSE w

\* GameEngine.update(deltaTime)
Update(w, dt, in) ==
    CASE w.currentState = "MENU" -> UpdateMenu(w, in)
      [] w.currentState = "PLAYING" -> UpdatePlaying(w, dt, in)
      [] w.currentState = "PAUSED" -> UpdatePaused(w, in)
      [] w.currentState = "GAME_OVER" -> UpdateGameOver(w, in)
      [] w.currentState = "LEVEL_UP" -> UpdateLevelUp(w, in)
      [] w.currentState = "SETTINGS" -> UpdateSettings(w, in)
      [] w.currentState = "HOW_TO_PLAY" -> UpdateHowToPlay(w, in)

\* gameLoop without the cap on deltaTime
GameLoopUncapped(w, currentTime, in) ==
    LET dt == currentTime - w.lastTime
    IN  Update([w EXCEPT !.deltaTime = dt, !.lastTime = currentTime,
                         !.now = currentTime],
               dt, in)
\* GameEngine.gameLoop(currentTime)
GameLoop(w, currentTime, in) ==
    LET dt == Min(currentTime - w.lastTime, MaxDeltaTime)
    IN  Update([w EXCEPT !.deltaTime = dt, !.lastTime = currentTime,
                         !.now = currentTime],
               dt, in)

----------------------------------------------------------------------------
(* The program as it runs: frames and Cordova events *)

\* new GameEngine(canvas, ctx): the constructor ends with a first gameLoop call
\* in MENU with no input; difficulty is what loadGameSettings finds in storage
Init ==
    /\ currentState = "MENU"
    /\ score = 0
    /\ combo = 0
    /\ comboMultiplier = 1
    /\ sessionBest = 0
    /\ highScore = 0
    /\ gameCount = 0
    /\ localStorage = EmptyStorage
    /\ spawnTimer = 0
    /\ currentSpawnRate = BaseSpawnRate
    /\ currentProjectileSpeed = BaseProjectileSpeed
    /\ difficulty \in Difficulties
    /\ player = NoPlayer
    /\ lastTime = 0
    /\ deltaTime = 0
    /\ now = 0
    /\ pool = [i \in 1..InitialSize |-> i]
    /\ active = <<>>
    /\ proj = [id \in Ids |-> NewProjectile(0)]
    /\ created = InitialSize
    /\ log = <<>>
    /\ menuFrames = 0

\* the time between two animation frames (ms)
ClockSteps == {33}

\* where the finger is during play: right of the rotor (target angle 0)
RotorTouches == {[x |-> 800, y |-> 640]}
\* taps on the screens: one point inside each button and one outside all
TapPoints ==
    {[x |-> 400, y |-> 520], [x |-> 400, y |-> 600], [x |-> 400, y |-> 1210],
     [x |-> 400, y |-> 720], [x |-> 400, y |-> 810], [x |-> 400, y |-> 880],
     [x |-> 400, y |-> 1100], [x |-> 145, y |-> 580], [x |-> 315, y |-> 580],
     [x |-> 485, y |-> 580], [x |-> 655, y |-> 580], [x |-> 400, y |-> 1180],
     [x |-> 400, y |-> 230], [x |-> 10, y |-> 10]}
KeySets == {{}, {"Space"}, {"Escape"}, {"Backspace"}}
\* the draws of Math.random() in spawnProjectile: <<edge, position along it>>
SpawnChoices == {<<1, 640>>, <<1, 1200>>}

NoRandom == CHOOSE c \in SpawnChoices : TRUE

\* the input snapshots a frame can see in a state; a screen reads only part of
\* the snapshot, the rest is fixed.  Outside PLAYING the touch point is read
\* only under wasJustPressed, so a snapshot has a touch exactly when pressed;
\* a frame sees a tap or a key, not both
FrameInputs ==
    IF currentState = "PLAYING"
    THEN {[wasJustPressed |-> FALSE, touch |-> t, keys |-> {}, confirm |-> FALSE,
           edge |-> c[1], along |-> c[2]] :
            t \in RotorTouches \cup {NoTouch},
            c \in IF SpawnDue(spawnTimer + MaxDeltaTime, currentSpawnRate)
                  THEN SpawnChoices ELSE {NoRandom}}
    ELSE {in \in [wasJustPressed : BOOLEAN, touch : TapPoints \cup {NoTouch},
                  keys : KeySets, confirm : BOOLEAN,
                  edge : {NoRandom[1]}, along : {NoRandom[2]}] :
            /\ in.wasJustPressed = (in.touch # NoTouch)
            /\ in.touch = NoTouch \/ in.keys = {}
            /\ in.confirm => currentState = "SETTINGS"}

\* one animation frame: requestAnimationFrame calls gameLoop(currentTime)
Frame ==
    \E step \in ClockSteps, in \in FrameInputs :
        /\ now + step <= MaxClock
        /\ currentState # "PLAYING" => menuFrames < MaxMenuFrames
        /\ GameLoop(World, now + step, in).created <= MaxInstances
        /\ Commit(GameLoop(World, now + step, in))
        /\ menuFrames' = IF currentState = "PLAYING" THEN menuFrames ELSE menuFrames + 1

\* document 'pause' listener
PauseEvent ==
    /\ currentState = "PLAYING"
    /\ Commit([World EXCEPT !.currentState = "PAUSED"])
    /\ UNCHANGED menuFrames

\* document 'backbutton' listener; outside PLAYING and PAUSED the app exits
BackButtonEvent ==
    /\ currentState \in {"PLAYING", "PAUSED"}
    /\ Commit([World EXCEPT !.currentState =
                  IF currentState = "PLAYING" THEN "PAUSED" ELSE "PLAYING"])
    /\ UNCHANGED menuFrames

Next == Frame \/ PauseEvent \/ BackButtonEvent

Spec == Init /\ [][Next]_vars

----------------------------------------------------------------------------
(* The methods called one at a time *)

\* where projectiles are acquired (px): inside the collision radius on a solid
\* sector and on a gap of the unrotated rotor
HitPoints == {[x |-> 424, y |-> 672], [x |-> 430, y |-> 640]}
\* the same, and a point beyond the off-screen margin
ApiPoints == HitPoints \cup {[x |-> 860, y |-> 640]}
\* the time between two frames in ApiSpec (ms)
ApiClockStep == 200

\* ProjectilePool.acquire, as spawnProjectile calls it
ApiAcquire ==
    \E pt \in ApiPoints :
        /\ Len(pool) > 0 \/ created < ApiMaxInstances
        /\ Commit(Acquire(World, Px(pt.x), Px(pt.y), Px(GAME_WIDTH \div 2),
                          Px(GAME_HEIGHT \div 2), currentProjectileSpeed))
        /\ UNCHANGED menuFrames

\* ProjectilePool.acquire of a projectile next to the rotor
ApiSpawn ==
    \E pt \in HitPoints :
        /\ Len(pool) > 0 \/ created < ApiMaxInstances
        /\ Commit(Acquire(World, Px(pt.x), Px(pt.y), Px(GAME_WIDTH \div 2),
                          Px(GAME_HEIGHT \div 2), currentProjectileSpeed))
        /\ UNCHANGED menuFrames

\* ProjectilePool.release on any instance, active or not
ApiRelease ==
    \E id \in 1..created :
        /\ Commit(Release(World, id))
        /\ UNCHANGED menuFrames

\* ProjectilePool.clear
ApiClear ==
    /\ Commit(Clear(World))
    /\ UNCHANGED menuFrames

\* ProjectilePool.update
ApiPoolUpdate ==
    /\ Commit(PoolUpdate(World))
    /\ UNCHANGED menuFrames

\* GameEngine.updateProjectiles in a frame that comes ApiClockStep after the
\* last one, with the deltaTime gameLoop computes for it
ApiUpdateProjectiles ==
    /\ currentState = "PLAYING"
    /\ now + ApiClockStep <= ApiMaxClock
    /\ LET dt == Min(ApiClockStep, MaxDeltaTime)
       IN  Commit(UpdateProjectiles(
                     [World EXCEPT !.now = now + ApiClockStep,
                                   !.lastTime = now + ApiClockStep,
                                   !.deltaTime = dt], dt))
    /\ UNCHANGED menuFrames

\* GameEngine.checkCollisions
ApiCheckCollisions ==
    /\ currentState = "PLAYING"
    /\ combo < ApiMaxCombo
    /\ Commit(CheckCollisions(World))
    /\ UNCHANGED menuFrames

\* GameEngine.handleDodge on an active instance, as checkCollisions calls it,
\* or once more on an instance that was dodged already
ApiHandleDodge ==
    \E id \in 1..created :
        /\ currentState = "PLAYING"
        /\ combo < ApiMaxCombo
        /\ id \in Range(active) \/ proj[id].dodged
        /\ Commit(HandleDodge(World, id))
        /\ UNCHANGED menuFrames

\* GameEngine.handleCollision on an active instance
ApiHandleCollision ==
    \E id \in Range(active) :
        /\ currentState = "PLAYING"
        /\ Commit(HandleCollision(World, id))
        /\ UNCHANGED menuFrames

\* GameEngine.startGame, from the screens that call it
ApiStartGame ==
    /\ currentState \in {"MENU", "GAME_OVER"}
    /\ gameCount < MaxGames
    /\ Commit(StartGame(World))
    /\ UNCHANGED menuFrames

ApiNext ==
    \/ ApiSpawn
    \/ ApiUpdateProjectiles
    \/ ApiCheckCollisions
    \/ ApiHandleDodge
    \/ ApiHandleCollision
    \/ ApiStartGame

\* the engine constructed over storage that holds the default settings
ApiInit == Init /\ difficulty = "medium"

ApiSpec == ApiInit /\ [][ApiNext]_vars

\* the methods of ProjectilePool alone
PoolNext ==
    \/ ApiAcquire
    \/ ApiRelease
    \/ ApiClear
    \/ ApiPoolUpdate

PoolSpec == ApiInit /\ [][PoolNext]_vars

----------------------------------------------------------------------------
(* The scoring handlers called one at a time, over long combos *)

\* ProjectilePool.acquire once the screen is empty
ScoreAcquire ==
    \E pt \in ApiPoints :
        /\ currentState = "PLAYING"
        /\ active = <<>>
        /\ Commit(Acquire(World, Px(pt.x), Px(pt.y), Px(GAME_WIDTH \div 2),
                          Px(GAME_HEIGHT \div 2), currentProjectileSpeed))
        /\ UNCHANGED menuFrames

\* GameEngine.handleDodge on an active instance
ScoreHandleDodge ==
    \E id \in Range(active) :
        /\ currentState = "PLAYING"
        /\ combo < MaxCombo
        /\ Commit(HandleDodge(World, id))
        /\ UNCHANGED menuFrames

\* GameEngine.updateDifficulty, the last call of updatePlaying
ScoreUpdateDifficulty ==
    /\ currentState = "PLAYING"
    /\ Commit(UpdateDifficulty(World))
    /\ UNCHANGED menuFrames

\* GameEngine.startGame from the menu: ScoreSpec follows the first session
ScoreStartGame ==
    /\ currentState = "MENU"
    /\ Commit(StartGame(World))
    /\ UNCHANGED menuFrames

ScoreNext ==
    \/ ScoreStartGame
    \/ ScoreAcquire
    \/ ScoreHandleDodge
    \/ ApiHandleCollision
    \/ ApiUpdateProjectiles
    \/ ScoreUpdateDifficulty
    \/ PauseEvent
    \/ BackButtonEvent

ScoreSpec == Init /\ [][ScoreNext]_vars

----------------------------------------------------------------------------
(* The collision scan over many projectiles *)

\* the engine constructed over storage that holds the default settings, with
\* room for GridMaxInstances instances
GridInit ==
    /\ currentState = "MENU"
    /\ score = 0
    /\ combo = 0
    /\ comboMultiplier = 1
    /\ sessionBest = 0
    /\ highScore = 0
    /\ gameCount = 0
    /\ localStorage = EmptyStorage
    /\ spawnTimer = 0
    /\ currentSpawnRate = BaseSpawnRate
    /\ currentProjectileSpeed = BaseProjectileSpeed
    /\ difficulty = "medium"
    /\ player = NoPlayer
    /\ lastTime = 0
    /\ deltaTime = 0
    /\ now = 0
    /\ pool = [i \in 1..InitialSize |-> i]
    /\ active = <<>>
    /\ proj = [id \in 1..GridMaxInstances |-> NewProjectile(0)]
    /\ created = InitialSize
    /\ log = <<>>
    /\ menuFrames = 0

\* where GridSpec acquires projectiles (px): on a gap of the unrotated rotor,
\* inside the collision radius
GapPoints == {[x |-> 430, y |-> 640]}

\* ProjectilePool.acquire of a projectile next to the rotor
GridSpawn ==
    \E pt \in GapPoints :
        /\ currentState = "PLAYING"
        /\ Len(pool) > 0 \/ created < GridMaxInstances
        /\ Commit(Acquire(World, Px(pt.x), Px(pt.y), Px(GAME_WIDTH \div 2),
                          Px(GAME_HEIGHT \div 2), currentProjectileSpeed))
        /\ UNCHANGED menuFrames

\* GameEngine.checkCollisions
GridCheckCollisions ==
    /\ currentState = "PLAYING"
    /\ Commit(CheckCollisions(World))
    /\ UNCHANGED menuFrames

GridNext ==
    \/ ApiStartGame
    \/ GridSpawn
    \/ ApiUpdateProjectiles
    \/ GridCheckCollisions

GridSpec == GridInit /\ [][GridNext]_vars

----------------------------------------------------------------------------
(* The frame loop under a clock that stalls *)

\* the time between two animation frames (ms): the same timestamp twice, a
\* fast frame, and a tab that was in the background for half a second
StallSteps == {0, 16, 500}

\* a frame with no finger down and no key held
NoInput ==
    [wasJustPressed |-> FALSE, touch |-> NoTouch, keys |-> {}, confirm |-> FALSE,
     edge |-> NoRandom[1], along |-> NoRandom[2]]

\* a frame in which the Space key is held and nothing is touched
SpaceInput ==
    [wasJustPressed |-> FALSE, touch |-> NoTouch, keys |-> {"Space"},
     confirm |-> FALSE, edge |-> NoRandom[1], along |-> NoRandom[2]]

\* one animation frame: requestAnimationFrame calls gameLoop(currentTime)
StallFrame ==
    \E step \in StallSteps :
        /\ now + step <= StallMaxClock
        /\ Commit(GameLoop(World, now + step, NoInput))
        /\ UNCHANGED menuFrames

StallNext == ApiStartGame \/ ScoreAcquire \/ StallFrame

StallSpec == ApiInit /\ [][StallNext]_vars

----------------------------------------------------------------------------
(* A long session on the hardest setting *)

\* ProjectilePool.acquire of a projectile on a gap next to the rotor, at most
\* one per timestamp
DifficultySpawn ==
    \E pt \in GapPoints :
        /\ currentState = "PLAYING"
        /\ Len(pool) > 0 \/ created < DifficultyMaxInstances
        /\ \A id \in Range(active) : proj[id].spawnTime < now
        /\ Commit(Acquire(World, Px(pt.x), Px(pt.y), Px(GAME_WIDTH \div 2),
                          Px(GAME_HEIGHT \div 2), currentProjectileSpeed))
        /\ UNCHANGED menuFrames

\* one animation frame, ApiClockStep after the last one; during play a
\* projectile is put next to the rotor before every frame
DifficultyFrame ==
    /\ now + ApiClockStep <= DifficultyMaxClock
    /\ currentState = "PLAYING" => \E id \in Range(active) : proj[id].spawnTime = now
    /\ GameLoop(World, now + ApiClockStep, NoInput).created <= DifficultyMaxInstances
    /\ Commit(GameLoop(World, now + ApiClockStep, NoInput))
    /\ UNCHANGED menuFrames

DifficultyNext == ApiStartGame \/ DifficultySpawn \/ DifficultyFrame

\* the engine constructed over storage that holds the hardest setting
DifficultyInit ==
    /\ currentState = "MENU"
    /\ score = 0
    /\ combo = 0
    /\ comboMultiplier = 1
    /\ sessionBest = 0
    /\ highScore = 0
    /\ gameCount = 0
    /\ localStorage = EmptyStorage
    /\ spawnTimer = 0
    /\ currentSpawnRate = BaseSpawnRate
    /\ currentProjectileSpeed = BaseProjectileSpeed
    /\ difficulty = "extreme"
    /\ player = NoPlayer
    /\ lastTime = 0
    /\ deltaTime = 0
    /\ now = 0
    /\ pool = [i \in 1..InitialSize |-> i]
    /\ active = <<>>
    /\ proj = [id \in 1..DifficultyMaxInstances |-> NewProjectile(0)]
    /\ created = InitialSize
    /\ log = <<>>
    /\ menuFrames = 0

DifficultySpec == DifficultyInit /\ [][DifficultyNext]_vars

----------------------------------------------------------------------------
(* updateProjectiles over projectiles that leave the screen *)

SweepNext == ApiStartGame \/ ApiAcquire \/ ApiUpdateProjectiles

SweepSpec == ApiInit /\ [][SweepNext]_vars

----------------------------------------------------------------------------
(* The rotor turned by the finger and asked about angles *)

\* where the finger is: right of the rotor, below it and above it
TurnTouches ==
    {[x |-> 800, y |-> 640], [x |-> 400, y |-> 1000], [x |-> 400, y |-> 0]}

\* the world angles isSolidAtAngle is asked about (micro-radians): the ends of
\* the four gaps and their neighbours, 0.1 rad, and the same a turn or two away
ProbeAngles ==
    LET base == UNION {{k * (TwoPi \div 4) - 1, k * (TwoPi \div 4),
                        k * (TwoPi \div 4) + GapSize - 1,
                        k * (TwoPi \div 4) + GapSize} : k \in 0..3}
                    \cup {100000, 392699, 1178097}
    IN  base \cup {a - TwoPi : a \in base} \cup {a + 2 * TwoPi : a \in base}

\* Player.update(deltaTime, inputManager) in a frame of MaxDeltaTime
RotorTurn ==
    \E touch \in TurnTouches \cup {NoTouch} :
        /\ currentState = "PLAYING"
        /\ now + MaxDeltaTime <= RotorMaxClock
        /\ Commit([World EXCEPT !.now = now + MaxDeltaTime,
                                !.lastTime = now + MaxDeltaTime,
                                !.deltaTime = MaxDeltaTime,
                                !.player = PlayerUpdate(@, MaxDeltaTime, touch)])
        /\ UNCHANGED menuFrames

\* Player.isSolidAtAngle(worldAngle); the log keeps the angle and the answer
RotorProbe ==
    \E worldAngle \in ProbeAngles :
        /\ currentState = "PLAYING"
        /\ Commit(Logged(World, <<"isSolidAtAngle", worldAngle,
                                  IsSolidAtAngle(player, worldAngle)>>))
        /\ UNCHANGED menuFrames

RotorNext == ApiStartGame \/ RotorTurn \/ RotorProbe

RotorSpec == ApiInit /\ [][RotorNext]_vars

----------------------------------------------------------------------------
(* Projectiles placed at PI / 8 and 3 PI / 8 of the rotor *)

\* where projectiles are acquired (milli-pixels): 15 px from the rotor center
\* at world angle PI / 8 (tan = 5741 / 13860) and at 3 PI / 8
ScenarioPoints ==
    {[x |-> 413860, y |-> 645741], [x |-> 405741, y |-> 653860]}

\* ProjectilePool.acquire of a projectile at one of the two angles
ScenarioSpawn ==
    \E pt \in ScenarioPoints :
        /\ currentState = "PLAYING"
        /\ Len(pool) > 0 \/ created < ApiMaxInstances
        /\ Commit(Acquire(World, pt.x, pt.y, Px(GAME_WIDTH \div 2),
                          Px(GAME_HEIGHT \div 2), currentProjectileSpeed))
        /\ UNCHANGED menuFrames

\* one animation frame while the game is paused: the clock runs on and the
\* projectiles stay where they are
ScenarioFrame ==
    /\ currentState = "PAUSED"
    /\ now + ApiClockStep <= ScenarioMaxClock
    /\ Commit(GameLoop(World, now + ApiClockStep, NoInput))
    /\ UNCHANGED menuFrames

ScenarioNext ==
    \/ ApiStartGame
    \/ ScenarioSpawn
    \/ PauseEvent
    \/ BackButtonEvent
    \/ ScenarioFrame
    \/ ApiCheckCollisions

ScenarioSpec == ApiInit /\ [][ScenarioNext]_vars

----------------------------------------------------------------------------
(* Sessions that are paused and resumed *)

\* the time between two animation frames (ms): a frame of the longest
\* deltaTime, and the first frame after the app was in the background for
\* half a second
PauseSteps == {33, 500}

\* a tap on the point (x, y)
TapInput(x, y) ==
    [wasJustPressed |-> TRUE, touch |-> [x |-> x, y |-> y], keys |-> {},
     confirm |-> FALSE, edge |-> NoRandom[1], along |-> NoRandom[2]]

\* a finger held on the point (x, y)
HoldInput(x, y) ==
    [wasJustPressed |-> FALSE, touch |-> [x |-> x, y |-> y], keys |-> {},
     confirm |-> FALSE, edge |-> NoRandom[1], along |-> NoRandom[2]]

\* what a frame sees: during play nothing or a finger below the rotor; on the
\* pause screen nothing, Space, or a tap on RESUME, SETTINGS or QUIT;
\* elsewhere nothing
PauseInputs ==
    CASE currentState = "PLAYING" -> {NoInput, HoldInput(400, 1000)}
      [] currentState = "PAUSED" ->
            {NoInput, SpaceInput, TapInput(400, 600), TapInput(400, 720),
             TapInput(400, 810)}
      [] OTHER -> {NoInput}

\* one animation frame: requestAnimationFrame calls gameLoop(currentTime);
\* regular frames come only before PauseRegularUntil
PauseFrame ==
    \E step \in PauseSteps, in \in PauseInputs :
        /\ now + step <= PauseMaxClock
        /\ step = 33 => now < PauseRegularUntil
        /\ Commit(GameLoop(World, now + step, in))
        /\ UNCHANGED menuFrames

PauseNext ==
    \/ ApiStartGame
    \/ ScoreAcquire
    \/ PauseEvent
    \/ BackButtonEvent
    \/ PauseFrame

PauseSpec == ApiInit /\ [][PauseNext]_vars

----------------------------------------------------------------------------
(* spawnProjectile over the edges of the playfield *)

\* the draws of Math.random() * GAME_WIDTH (or GAME_HEIGHT) along an edge, in
\* px: every SpawnStep-th position, the ends, and the positions level with the
\* rotor center
SpawnStep == 16
SpawnAlongs(edge) ==
    LET length == IF edge \in {0, 2} THEN GAME_WIDTH ELSE GAME_HEIGHT
    IN  {a \in 0..(length - 1) : a % SpawnStep = 0}
            \cup {length - 1, length \div 2 - 1, length \div 2}

\* GameEngine.spawnProjectile() on an empty screen
SpawnAnywhere ==
    \E edge \in 0..3 :
        \E along \in SpawnAlongs(edge) :
            /\ currentState = "PLAYING"
            /\ active = <<>>
            /\ Commit(SpawnProjectile(World, edge, along))
            /\ UNCHANGED menuFrames

SpawnNext == ApiStartGame \/ SpawnAnywhere \/ ApiClear

SpawnSpec == ApiInit /\ [][SpawnNext]_vars

----------------------------------------------------------------------------
(* The rotor turned over frames of any length *)

\* the deltaTime of a frame (ms): a fast frame and the longest
TurnDeltas == {16, 33}

\* Player.update(deltaTime, inputManager)
TurnAny ==
    \E touch \in TurnTouches \cup {NoTouch}, dt \in TurnDeltas :
        /\ currentState = "PLAYING"
        /\ now + dt <= TurnMaxClock
        /\ Commit([World EXCEPT !.now = now + dt,
                                !.lastTime = now + dt,
                                !.deltaTime = dt,
                                !.player = PlayerUpdate(@, dt, touch)])
        /\ UNCHANGED menuFrames

TurnNext == ApiStartGame \/ TurnAny

TurnSpec == ApiInit /\ [][TurnNext]_vars

----------------------------------------------------------------------------
(* The rotor left alone after a few touches *)

\* Player.update(deltaTime, inputManager) in a frame of MaxDeltaTime; the
\* finger can be down before CoastTouchUntil and is up from then on
CoastTurn ==
    \E touch \in IF now < CoastTouchUntil THEN TurnTouches \cup {NoTouch}
                 ELSE {NoTouch} :
        /\ currentState = "PLAYING"
        /\ now + MaxDeltaTime <= CoastMaxClock
        /\ Commit([World EXCEPT !.now = now + MaxDeltaTime,
                                !.lastTime = now + MaxDeltaTime,
                                !.deltaTime = MaxDeltaTime,
                                !.player = PlayerUpdate(@, MaxDeltaTime, touch)])
        /\ UNCHANGED menuFrames

CoastNext == ApiStartGame \/ CoastTurn

CoastSpec == ApiInit /\ [][CoastNext]_vars

----------------------------------------------------------------------------
(* Sessions that end with a score of any size *)

\* the scores a session ends with: below the range validateScore accepts, its
\* two ends, a score inside it and one above it
EndScores == {0 - 5, 0, 650, 1000000, 1000065}

\* GameEngine.startGame, from the screens that call it
EndStartGame ==
    /\ currentState \in {"MENU", "GAME_OVER"}
    /\ gameCount < EndMaxGames
    /\ Commit(StartGame(World))
    /\ UNCHANGED menuFrames

\* the score field of a fresh session written from outside the engine
EndSetScore ==
    \E s \in EndScores :
        /\ currentState = "PLAYING"
        /\ score = 0
        /\ s # 0
        /\ Commit([World EXCEPT !.score = s, !.sessionBest = Max(@, s)])
        /\ UNCHANGED menuFrames

\* GameEngine.gameOver, as handleCollision calls it
EndGameOver ==
    /\ currentState = "PLAYING"
    /\ Commit(GameOver(World))
    /\ UNCHANGED menuFrames

EndNext == EndStartGame \/ EndSetScore \/ EndGameOver

EndSpec == ApiInit /\ [][EndNext]_vars

----------------------------------------------------------------------------
(* The leaderboard under saveScore calls *)

\* the scores saveScore is called with: one below and one above the range
\* validateScore accepts, its two ends and two scores inside it
SaveScores == {0 - 5, 0, 650, 700, 1000000, 1000065}

\* DataManager.saveScore(score); the log keeps the score and what is returned
BoardSaveScore ==
    \E s \in SaveScores :
        /\ Commit(Logged(SaveScore(World, s).world,
                         <<"saveScore", s, SaveScore(World, s).result>>))
        /\ UNCHANGED menuFrames

\* DataManager.loadHighScores(), as the leaderboard screen calls it
BoardLoadHighScores ==
    /\ Commit(Logged(World, <<"loadHighScores", Len(LoadHighScores(World)), TRUE>>))
    /\ UNCHANGED menuFrames

BoardNext == BoardSaveScore \/ BoardLoadHighScores

BoardSpec == ApiInit /\ [][BoardNext]_vars

----------------------------------------------------------------------------
(* Sessions with visits to the settings screen between and during them *)

\* the time between two frames in SettingsSpec (ms): past the grace period
SettingsStep == 500

\* what a frame sees: on the menu nothing or a tap on PLAY or SETTINGS; on the
\* pause screen a tap on RESUME, SETTINGS or QUIT; on the settings screen a tap
\* on EASY, on EXTREME, on BACK or on RESET ALL DATA with confirm() answered
\* yes, or the Escape key; on the game over screen a tap on RETRY; during play
\* nothing
SettingsInputs ==
    CASE currentState = "MENU" ->
            {NoInput, TapInput(400, 520), TapInput(400, 1210)}
      [] currentState = "PAUSED" ->
            {TapInput(400, 600), TapInput(400, 720), TapInput(400, 810)}
      [] currentState = "SETTINGS" ->
            {TapInput(145, 580), TapInput(655, 580), TapInput(400, 1100),
             [TapInput(400, 1180) EXCEPT !.confirm = TRUE],
             [NoInput EXCEPT !.keys = {"Escape"}]}
      [] currentState = "GAME_OVER" -> {TapInput(400, 780)}
      [] OTHER -> {NoInput}

\* one animation frame: requestAnimationFrame calls gameLoop(currentTime)
SettingsFrame ==
    \E in \in SettingsInputs :
        /\ now + SettingsStep <= SettingsMaxClock
        /\ Commit(GameLoop(World, now + SettingsStep, in))
        /\ UNCHANGED menuFrames

SettingsNext ==
    \/ ScoreAcquire
    \/ PauseEvent
    \/ BackButtonEvent
    \/ SettingsFrame

SettingsSpec == ApiInit /\ [][SettingsNext]_vars

----------------------------------------------------------------------------
(* Properties *)

Occurrences(s, id) == Cardinality({i \in 1..Len(s) : s[i] = id})
TotalInstances == Len(pool) + Len(active)
\* the step made exactly this one call
OnlyCall(l, e) == l = <<e>>

\* C1: every instance the pool has constructed is in exactly one of pool
\* (free) and active, exactly once; nothing else is in either collection
PoolPartition ==
    /\ \A id \in 1..created : Occurrences(pool, id) + Occurrences(active, id) = 1
    /\ Range(pool) \cup Range(active) \subseteq 1..created

\* a session ended by a hit after a dodge, with an instance the pool had to
\* construct, some instances free and some active
PoolPartitionWitness ==
    /\ created > InitialSize
    /\ currentState = "GAME_OVER"
    /\ Len(pool) > 0
    /\ Len(active) > 0
    /\ score > 0

\* C2: release of an instance that is not in the active collection changes
\* neither collection nor any instance, and the instance is not twice in the
\* free list afterwards
ReleaseInactiveIsNoOp ==
    [][\A id \in Ids :
          OnlyCall(log', <<"release", id, FALSE>>)
              => /\ pool' = pool
                 /\ active' = active
                 /\ proj' = proj
                 /\ Occurrences(pool', id) <= 1]_vars

\* an instance constructed by acquire, released before, is released again
ReleaseInactiveWitness ==
    \E id \in Ids :
        /\ id > InitialSize
        /\ OnlyCall(log, <<"release", id, FALSE>>)
        /\ id \in Range(pool)

\* C3: acquire returns an instance with active = true and dodged = false at
\* the end of the active collection; it takes the instance from the free list
\* exactly when the list is not empty and constructs the next instance
\* otherwise; the number of instances never decreases and grows only then
AcquireNeverFails ==
    [][/\ \A id \in Ids, reuse \in BOOLEAN :
             OnlyCall(log', <<"acquire", id, reuse>>)
                 => /\ proj'[id].active
                    /\ ~proj'[id].dodged
                    /\ active' = Append(active, id)
                    /\ reuse = (Len(pool) > 0)
                    /\ reuse => id = pool[Len(pool)] /\ TotalInstances' = TotalInstances
                    /\ ~reuse => id = TotalInstances + 1 /\ TotalInstances' = TotalInstances + 1
       /\ TotalInstances' >= TotalInstances
       /\ TotalInstances' > TotalInstances
              => Len(pool) = 0 /\ \E id \in Ids : OnlyCall(log', <<"acquire", id, FALSE>>)]_vars

\* with the InitialSize pre-created instances all active and none released,
\* one more acquire has constructed instance number InitialSize + 1
AcquireNeverFailsWitness ==
    /\ OnlyCall(log, <<"acquire", InitialSize + 1, FALSE>>)
    /\ active = [i \in 1..(InitialSize + 1) |->
                     IF i <= InitialSize THEN InitialSize + 1 - i ELSE i]
    /\ pool = <<>>

\* the step called the named method
Called(l, name) == \E i \in 1..Len(l) : l[i][1] = name
\* the calls of the named method on instance id that went through
CallsOn(l, name, id) == {i \in 1..Len(l) : l[i] = <<name, id, TRUE>>}
\* the difficultyBonuses of the scoring rule, in tenths
BonusTenths == [easy |-> 10, medium |-> 11, hard |-> 12, extreme |-> 13]
\* the points of n consecutive dodges that start from combo c on difficulty d
RECURSIVE PointsFor(_, _, _)
PointsFor(c, n, d) ==
    IF n = 0 THEN 0
    ELSE (10 * Min((c + 1) \div 10 + 1, 5) * BonusTenths[d]) \div 10
             + PointsFor(c + 1, n - 1, d)

\* C4: right after a startGame call the active collection is empty and every
\* constructed instance is in the free list, score and combo are 0, the
\* multiplier is 1, spawnTimer is 0, spawn rate and projectile speed are at
\* their base values, the rotor is a fresh Player at angle 0 and the state is
\* PLAYING
StartGamePostcondition ==
    Called(log, "startGame")
        => /\ active = <<>>
           /\ \A id \in 1..created : Occurrences(pool, id) = 1
           /\ score = 0
           /\ combo = 0
           /\ comboMultiplier = 1
           /\ spawnTimer = 0
           /\ currentSpawnRate = BaseSpawnRate
           /\ currentProjectileSpeed = BaseProjectileSpeed
           /\ player = NewPlayer(GAME_WIDTH \div 2, GAME_HEIGHT \div 2)
           /\ player.angle = 0
           /\ currentState = "PLAYING"

\* startGame has just returned to the free list projectiles that a session
\* with points on the board had left active
StartGamePostconditionWitness ==
    /\ Called(log, "startGame")
    /\ \E id \in Ids : CallsOn(log, "release", id) # {}
    /\ sessionBest > 0

\* C5: in every reachable state comboMultiplier = min(floor(combo / 10) + 1, 5)
ComboMultiplierInSync ==
    comboMultiplier = IF combo \div 10 + 1 < 5 THEN combo \div 10 + 1 ELSE 5

\* a combo past 50, where the cap of 5 is what holds the multiplier down
ComboMultiplierInSyncWitness ==
    /\ combo > 50
    /\ comboMultiplier = 5
    /\ Called(log, "handleDodge")

\* C6: a scored dodge raises combo by exactly 1 and score by exactly
\* floor(10 * m * bonus), m being the multiplier of the combo after the
\* increment; the tenth dodge in a row brings the multiplier to 2, the 11th
\* dodge on medium awards 22 points, and sessionBest is raised to the new
\* score when the score exceeds it
DodgeAward ==
    [][\A id \in Ids :
          CallsOn(log', "handleDodge", id) # {}
              => /\ combo' = combo + 1
                 /\ score' = score + PointsFor(combo, 1, difficulty)
                 /\ combo' = 10 => comboMultiplier' = 2
                 /\ (difficulty = "medium" /\ combo' = 11) => score' = score + 22
                 /\ sessionBest' = IF score' > sessionBest THEN score' ELSE sessionBest]_vars

\* the 11th dodge in a row on medium: nine at 11 points, two at 22
DodgeAwardWitness ==
    /\ difficulty = "medium"
    /\ combo = 11
    /\ score = 9 * 11 + 2 * 22
    /\ sessionBest = score
    /\ Called(log, "handleDodge")

\* C7: a step in which handleCollision runs ends in GAME_OVER with combo 0
\* and multiplier 1 and the hit instance in the free list; after the
\* handleCollision call the step only releases that instance and calls
\* gameOver, and the score moves by the dodges scored before the hit and by
\* nothing else
HitEndsSession ==
    [][\A i \in 1..Len(log') :
          log'[i][1] = "handleCollision"
              => LET id == log'[i][2]
                     dodges == {j \in 1..Len(log') :
                                   log'[j][1] = "handleDodge" /\ log'[j][3]}
                 IN  /\ currentState' = "GAME_OVER"
                     /\ combo' = 0
                     /\ comboMultiplier' = 1
                     /\ Occurrences(pool', id) = 1
                     /\ Occurrences(active', id) = 0
                     /\ SubSeq(log', i + 1, Len(log'))
                            = << <<"release", id, TRUE>>, <<"gameOver", 0, TRUE>> >>
                     /\ \A j \in dodges : j < i
                     /\ score' = score + PointsFor(combo, Cardinality(dodges), difficulty)]_vars

\* one collision scan dodged a projectile and then hit the next one
HitEndsSessionWitness ==
    /\ currentState = "GAME_OVER"
    /\ combo = 0
    /\ Len(log) = 6
    /\ log[1][1] = "checkCollisions"
    /\ log[2][1] = "handleDodge"
    /\ log[4][1] = "handleCollision"
    /\ score = PointsFor(0, 1, difficulty)

\* C8: in a step that does not call startGame the score does not decrease,
\* and unless the step handles a solid hit neither combo nor comboMultiplier
\* decreases
MonotoneWithinSession ==
    [][~Called(log', "startGame")
          => /\ score' >= score
             /\ ~Called(log', "handleCollision")
                    => combo' >= combo /\ comboMultiplier' >= comboMultiplier]_vars

\* a session paused with a multiplier above 1 after a difficulty recompute
MonotoneWithinSessionWitness ==
    /\ currentState = "PAUSED"
    /\ comboMultiplier > 1
    /\ combo >= 10
    /\ currentProjectileSpeed > BaseProjectileSpeed

\* C9: a collision scan leaves every active projectile younger than 200 ms as
\* it is and calls neither handleDodge nor handleCollision on it; when all
\* active projectiles are that young the scan changes neither score, combo,
\* multiplier, game state nor the pool
GraceProtects ==
    [][Called(log', "checkCollisions")
          => /\ \A id \in Range(active) :
                    now - proj[id].spawnTime < 200
                        => /\ proj'[id] = proj[id]
                           /\ id \in Range(active')
                           /\ \A i \in 1..Len(log') :
                                  log'[i][1] \in {"handleDodge", "handleCollision"}
                                      => log'[i][2] # id
             /\ (\A id \in Range(active) : now - proj[id].spawnTime < 200)
                    => /\ score' = score
                       /\ combo' = combo
                       /\ comboMultiplier' = comboMultiplier
                       /\ currentState' = currentState
                       /\ pool' = pool
                       /\ active' = active]_vars

\* a scan that dodged an older projectile went past a young one that sits on
\* a solid sector inside the collision radius
GraceProtectsWitness ==
    /\ Len(log) > 1
    /\ log[1] = <<"checkCollisions", 0, TRUE>>
    /\ log[2][1] = "handleDodge"
    /\ currentState = "PLAYING"
    /\ \E id \in Range(active) :
           /\ now - proj[id].spawnTime < 200
           /\ proj[id].active
           /\ proj[id].x = Px(424)
           /\ proj[id].y = Px(672)
           /\ InCollisionRange(proj[id].x - Px(player.x), proj[id].y - Px(player.y))
           /\ IsSolidAtAngle(player, Atan2(proj[id].y - Px(player.y),
                                           proj[id].x - Px(player.x)))

\* C10: handleDodge on an instance whose dodged flag is set changes neither
\* score, combo, multiplier, sessionBest nor the pool; a step scores an
\* instance at most once, and only while its flag goes from false to true;
\* the flag goes back to false only when the instance is acquired again
DodgedOnce ==
    [][\A id \in Ids :
          /\ (proj[id].dodged /\ \E i \in 1..Len(log') :
                                    log'[i][1] = "handleDodge" /\ log'[i][2] = id)
                 => /\ score' = score
                    /\ combo' = combo
                    /\ comboMultiplier' = comboMultiplier
                    /\ sessionBest' = sessionBest
                    /\ pool' = pool
                    /\ active' = active
                    /\ proj' = proj
          /\ Cardinality(CallsOn(log', "handleDodge", id)) <= 1
          /\ CallsOn(log', "handleDodge", id) # {}
                 <=> (~proj[id].dodged /\ proj'[id].dodged)
          /\ (proj[id].dodged /\ ~proj'[id].dodged)
                 => \E i \in 1..Len(log') :
                        log'[i][1] = "acquire" /\ log'[i][2] = id]_vars

\* handleDodge was called again on an instance that had scored
DodgedOnceWitness ==
    \E id \in Ids :
        /\ OnlyCall(log, <<"handleDodge", id, FALSE>>)
        /\ proj[id].dodged
        /\ combo > 0
        /\ score > 0
        /\ id \in Range(pool)

\* C11: a collision scan handles at most one solid hit and classifies nothing
\* after it: no later call of handleDodge or handleCollision, and every
\* projectile behind the hit one in the active list is left as it was; the
\* projectiles dodged earlier in the scan are flagged and their points stay
\* in the score
OneHitPerScan ==
    [][Called(log', "checkCollisions")
          => LET hits == {i \in 1..Len(log') : log'[i][1] = "handleCollision"}
                 dodges == {j \in 1..Len(log') :
                               log'[j][1] = "handleDodge" /\ log'[j][3]}
             IN  /\ Cardinality(hits) <= 1
                 /\ \A i \in hits :
                        /\ \A j \in (i + 1)..Len(log') :
                               log'[j][1] \notin {"handleDodge", "handleCollision"}
                        /\ \A k \in 1..Len(active) :
                               k > IndexOf(active, log'[i][2])
                                   => /\ proj'[active[k]] = proj[active[k]]
                                      /\ active[k] \in Range(active')
                 /\ \A j \in dodges : proj'[log'[j][2]].dodged
                 /\ score' = score + PointsFor(combo, Cardinality(dodges), difficulty)]_vars

\* a scan hit the first projectile and left alone the one behind it, which
\* sits in a gap inside the collision radius, past its grace period
OneHitPerScanWitness ==
    /\ Len(log) = 4
    /\ log[1] = <<"checkCollisions", 0, TRUE>>
    /\ log[2][1] = "handleCollision"
    /\ currentState = "GAME_OVER"
    /\ \E id \in Range(active) :
           /\ proj[id].active
           /\ ~proj[id].dodged
           /\ now - proj[id].spawnTime >= 200
           /\ InCollisionRange(proj[id].x - Px(player.x), proj[id].y - Px(player.y))
           /\ ~IsSolidAtAngle(player, Atan2(proj[id].y - Px(player.y),
                                            proj[id].x - Px(player.x)))

\* the instance is in the collision radius of the rotor, past its grace period
Eligible(id) ==
    /\ proj[id].active
    /\ now - proj[id].spawnTime >= 200
    /\ (proj[id].x - Px(player.x)) * (proj[id].x - Px(player.x))
           + (proj[id].y - Px(player.y)) * (proj[id].y - Px(player.y))
           <= Px(30 + 12) * Px(30 + 12)

\* C12: a collision scan classifies, as a hit or as a dodge, every active
\* projectile that is past its grace period and within rotorRadius +
\* projectileRadius of the rotor center, up to the first solid hit, however
\* many projectiles are active
AllInRangeClassified ==
    [][Called(log', "checkCollisions")
          => \A k \in 1..Len(active) :
                 Eligible(active[k])
                     => \/ \E i \in 1..Len(log') :
                               /\ log'[i][1] \in {"handleDodge", "handleCollision"}
                               /\ log'[i][2] = active[k]
                        \/ \E i \in 1..Len(log') :
                               /\ log'[i][1] = "handleCollision"
                               /\ IndexOf(active, log'[i][2]) < k]_vars

\* the places spawnProjectile puts a new projectile, in milli-pixels
SpawnPlaces == {[x |-> Px(SpawnPoint(c[1], c[2]).x),
                 y |-> Px(SpawnPoint(c[1], c[2]).y)] : c \in SpawnChoices}
\* the instances the step acquired
Acquired(l) == {l[i][2] : i \in {j \in 1..Len(l) : l[j][1] = "acquire"}}
\* the frame a finger below the rotor (target angle PI / 2) would give
TurnInput ==
    [wasJustPressed |-> FALSE, touch |-> [x |-> 400, y |-> 1000], keys |-> {},
     confirm |-> FALSE, edge |-> NoRandom[1], along |-> NoRandom[2]]
\* every hit or dodge of the scan in w agrees with the rotor and the
\* projectile as w has them
ClassifiedAsSeen(w) ==
    \A i \in 1..Len(w.log) :
        w.log[i][1] \in {"handleDodge", "handleCollision"}
            => LET p == w.proj[w.log[i][2]]
               IN  (w.log[i][1] = "handleCollision")
                       = IsSolidAtAngle(w.player, Atan2(p.y - Px(w.player.y),
                                                        p.x - Px(w.player.x)))

DeltaTimeClamped ==
    [][(Called(log', "checkCollisions") \/ now' # now)
          => /\ deltaTime' = Min(now' - lastTime, MaxDeltaTime)
             /\ lastTime' = now'
             /\ now' - lastTime = 500 => deltaTime' = 33
             /\ deltaTime' \in 0..33
             /\ \A id \in 1..created :
                    /\ Abs(proj'[id].x - proj[id].x) <= Abs(proj[id].vx) * 33
                    /\ Abs(proj'[id].y - proj[id].y) <= Abs(proj[id].vy) * 33]_vars

\* a PLAYING tick that came half a second after a projectile was spawned has
\* moved it by 33 ms of flight
DeltaTimeClampedWitness ==
    /\ currentState = "PLAYING"
    /\ Called(log, "checkCollisions")
    /\ now >= 500
    /\ deltaTime = MaxDeltaTime
    /\ \E id \in 1..created :
           /\ proj[id].spawnTime + 500 = now
           /\ proj[id].vx # 0
           /\ proj[id].x = Px(430) + proj[id].vx * 33

\* C15: at the end of a PLAYING tick, with level = floor(score / 500), the
\* spawn rate is max(1.5 * 0.9^level, 0.3) s and the projectile speed is
\* min(200 + 20 * level, 500) px/s; recomputing them changes nothing, the rate
\* does not rise and the speed does not fall while the score grows, and they
\* stay within [0.3, 1.5] s and [200, 500] px/s
DifficultyFollowsScore ==
    [][Called(log', "checkCollisions")
          => LET level == score' \div 500
                 after == [score |-> score',
                           currentSpawnRate |-> currentSpawnRate',
                           currentProjectileSpeed |-> currentProjectileSpeed']
             IN  /\ currentSpawnRate' = Max(SpawnRateAt(level), 300000)
                 /\ level = 0 => currentSpawnRate' = 1500000
                 /\ level = 1 => currentSpawnRate' = 1350000
                 /\ level >= 16 => currentSpawnRate' = 300000
                 /\ currentProjectileSpeed' = Min(200 + 20 * level, 500)
                 /\ UpdateDifficulty(after) = after
                 /\ score' >= score
                        => /\ currentSpawnRate' <= currentSpawnRate
                           /\ currentProjectileSpeed' >= currentProjectileSpeed
                 /\ currentSpawnRate' \in 300000..1500000
                 /\ currentProjectileSpeed' \in 200..500]_vars

\* a tick has ended with a score past level 16, where the rate is at its
\* floor and the speed at its cap
DifficultyFollowsScoreWitness ==
    /\ currentState = "PLAYING"
    /\ Called(log, "checkCollisions")
    /\ Called(log, "handleDodge")
    /\ score >= 8000
    /\ currentSpawnRate = 300000
    /\ currentProjectileSpeed = 500

\* C16: after updateProjectiles every projectile that was active before it has
\* either moved by velocity * deltaTime or been released; none is still active
\* where it was, the one that follows a released projectile in the active
\* list included
AdvancedOrReleased ==
    [][(currentState = "PLAYING" /\ now' # now)
          => \A id \in Range(active) :
                 \/ /\ proj'[id].x = proj[id].x + proj[id].vx * deltaTime'
                    /\ proj'[id].y = proj[id].y + proj[id].vy * deltaTime'
                    /\ proj[id].vx # 0 \/ proj[id].vy # 0
                 \/ /\ id \notin Range(active')
                    /\ ~proj'[id].active
                    /\ OffScreen(proj'[id])]_vars

\* C17: isSolidAtAngle(worldAngle) answers false exactly when (worldAngle -
\* rotor angle) mod 2PI lies in [k * PI/2, k * PI/2 + PI/4) for some k in
\* 0..3, start included and end excluded, and true otherwise; the answer is
\* the same a whole number of turns away, and the call changes no state
SolidByLocalAngle ==
    [][Called(log', "isSolidAtAngle")
          => LET worldAngle == log'[1][2]
                 local == (worldAngle - player.angle) % TwoPi
                 inGap == \E k \in 0..3 :
                              /\ local >= k * 1570796
                              /\ local < k * 1570796 + 785398
             IN  /\ log'[1][3] = ~inGap
                 /\ local \in 0..785397 => ~log'[1][3]
                 /\ local \in 785398..1570795 => log'[1][3]
                 /\ \A k \in -2..2 :
                        IsSolidAtAngle(player, worldAngle + k * TwoPi) = log'[1][3]
                 /\ <<currentState, score, combo, comboMultiplier, sessionBest,
                      player, pool, active, proj, created, now>>'
                      = <<currentState, score, combo, comboMultiplier, sessionBest,
                          player, pool, active, proj, created, now>>]_vars

\* a turned rotor was asked about the very end of one of its gaps, more than
\* a turn away, and answered solid
SolidByLocalAngleWitness ==
    /\ Called(log, "isSolidAtAngle")
    /\ player # NoPlayer
    /\ player.angle # 0
    /\ log[1][2] > TwoPi
    /\ (log[1][2] - player.angle) % TwoPi \in {785398, 2356194, 3926990, 5497786}
    /\ log[1][3]

\* the world angle of an instance as checkCollisions computes it
WorldAngle(id) == Atan2(proj[id].y - Px(player.y), proj[id].x - Px(player.x))

\* C18 as stated: with the rotor at angle 0, a projectile past its grace
\* period within the collision radius at world angle PI / 8 is classified
\* solid and ends the session
EighthIsSolid ==
    [][(Called(log', "checkCollisions") /\ player.angle = 0)
          => \A k \in 1..Len(active) :
                 (/\ Eligible(active[k])
                  /\ WorldAngle(active[k]) = Pi \div 8
                  /\ \A j \in 1..(k - 1) : ~Eligible(active[j]))
                     => /\ CallsOn(log', "handleCollision", active[k]) # {}
                        /\ currentState' = "GAME_OVER"]_vars

\* C18, amended: with the rotor at angle 0, a projectile past its grace period
\* within the collision radius at world angle PI / 8, which lies in the gap
\* [0, PI / 4), is classified as a gap and scored as a dodge, and does not
\* end the session
EighthIsGap ==
    [][(Called(log', "checkCollisions") /\ player.angle = 0)
          => \A k \in 1..Len(active) :
                 (/\ Eligible(active[k])
                  /\ ~proj[active[k]].dodged
                  /\ \A j \in 1..(k - 1) : ~Eligible(active[j]))
                     => /\ WorldAngle(active[k]) = Pi \div 8
                            => /\ CallsOn(log', "handleDodge", active[k]) # {}
                               /\ CallsOn(log', "handleCollision", active[k]) = {}
                               /\ score' > score
                               /\ active[k] \notin Range(active')
                               /\ (\A j \in (k + 1)..Len(active) :
                                       ~Eligible(active[j]))
                                      => currentState' = "PLAYING"]_vars

\* a scan has met a projectile at PI / 8 of the unrotated rotor and the
\* session goes on with its points
EighthIsGapWitness ==
    /\ currentState = "PLAYING"
    /\ Called(log, "checkCollisions")
    /\ player.angle = 0
    /\ \E id \in 1..created :
           /\ CallsOn(log, "handleDodge", id) # {}
           /\ WorldAngle(id) = Pi \div 8
           /\ now - proj[id].spawnTime >= 200
    /\ score > 0

\* C19: with Space pressed, a tick in MENU starts a new session, a tick in
\* PAUSED returns to PLAYING, and a tick in GAME_OVER starts a new session
SpaceStartsResumesRetries ==
    LET w == GameLoop(World, now + MaxDeltaTime, SpaceInput)
    IN  /\ currentState = "MENU"
            => Called(w.log, "startGame") /\ w.currentState = "PLAYING"
        /\ currentState = "PAUSED" => w.currentState = "PLAYING"
        /\ currentState = "GAME_OVER"
            => Called(w.log, "startGame") /\ w.currentState = "PLAYING"

\* C20: at every tick boundary an instance's active flag is false exactly when
\* the instance is in the free list: every instance in the active collection
\* has active = true, and every instance in the free list, the ones created
\* with the pool and never acquired included, has active = false
ActiveFlagMatchesList ==
    \A id \in 1..created :
        /\ ~proj[id].active <=> id \in Range(pool)
        /\ id \in Range(active) => proj[id].active
        /\ id \in Range(pool) => ~proj[id].active

\* C21: a step taken while the state is PAUSED changes neither score, combo,
\* comboMultiplier, spawnTimer, currentSpawnRate, currentProjectileSpeed, the
\* rotor, nor the position or pool membership of any projectile; and a PLAYING
\* tick, the first after a resume included, integrates at most 0.033 s
\* whatever the time since the last frame
PausedFreezes ==
    [][/\ currentState = "PAUSED"
           => <<score, combo, comboMultiplier, spawnTimer, currentSpawnRate,
                currentProjectileSpeed, player, pool, active, proj>>'
                = <<score, combo, comboMultiplier, spawnTimer, currentSpawnRate,
                    currentProjectileSpeed, player, pool, active, proj>>
       /\ (currentState = "PLAYING" /\ Called(log', "checkCollisions"))
           => /\ deltaTime' <= 33
              /\ spawnTimer' <= spawnTimer + 33
              /\ \A id \in 1..created :
                     /\ Abs(proj'[id].x - proj[id].x) <= Abs(proj[id].vx) * 33
                     /\ Abs(proj'[id].y - proj[id].y) <= Abs(proj[id].vy) * 33]_vars

\* a second has passed since a projectile was spawned, most of it on the
\* pause screen, and the PLAYING tick after the resume has moved it by 33 ms
\* of flight
PausedFreezesWitness ==
    /\ currentState = "PLAYING"
    /\ Called(log, "checkCollisions")
    /\ deltaTime = 33
    /\ \E id \in 1..created :
           /\ now - proj[id].spawnTime >= 1000
           /\ proj[id].vx # 0
           /\ proj[id].x = Px(430) + proj[id].vx * 33

\* the acquire calls of a step
AcquireCalls(l) == {i \in 1..Len(l) : l[i][1] = "acquire"}

\* C22: in a PLAYING tick spawnTimer grows by deltaTime; a projectile is
\* spawned in the tick exactly when the timer has then reached
\* currentSpawnRate, and in that case exactly one projectile is acquired and
\* the timer is back at 0; no tick spawns more than one
SpawnOnTimer ==
    [][(currentState = "PLAYING" /\ Called(log', "checkCollisions"))
          => LET timer == spawnTimer + deltaTime'
                 due == timer * 1000 >= currentSpawnRate
                 n == Cardinality(AcquireCalls(log'))
             IN  /\ n <= 1
                 /\ due <=> n = 1
                 /\ due => /\ spawnTimer' = 0
                           /\ \A id \in Acquired(log') :
                                  /\ id \in Range(active')
                                  /\ proj'[id].spawnTime = now'
                 /\ ~due => /\ spawnTimer' = timer
                            /\ created' = created]_vars

\* a tick has spawned a projectile at a spawn rate below the initial one and
\* the timer is back at 0
SpawnOnTimerWitness ==
    /\ currentState = "PLAYING"
    /\ Called(log, "checkCollisions")
    /\ Cardinality(AcquireCalls(log)) = 1
    /\ spawnTimer = 0
    /\ score >= 500
    /\ \E id \in Acquired(log) : id \in Range(active) /\ proj[id].spawnTime = now

\* C23: a projectile that spawnProjectile emits starts at least 30 + 12 + 50
\* = 92 px from the rotor center (400, 640), whatever the edge and the
\* position along it, and on or inside the edge margin after the final clamp;
\* the retry loop has ended within 10 attempts
SpawnedAtSafeDistance ==
    [][Called(log', "spawnProjectile")
          => /\ \A i \in 1..Len(log') :
                    log'[i][1] = "spawnProjectile" => log'[i][2] \in 1..10
             /\ Cardinality(Acquired(log')) = 1
             /\ \A id \in Acquired(log') :
                    LET dx == proj'[id].x - 400000
                        dy == proj'[id].y - 640000
                    IN  /\ \/ Abs(dx) >= 92000
                           \/ Abs(dy) >= 92000
                           \/ (dx \div 10) * (dx \div 10) + (dy \div 10) * (dy \div 10)
                                  >= 9200 * 9200
                        /\ proj'[id].x \in -20000..820000
                        /\ proj'[id].y \in -20000..1300000
                        /\ id \in Range(active')]_vars

\* a projectile has been spawned on the left edge level with the rotor center,
\* the point of that edge nearest to it
SpawnedAtSafeDistanceWitness ==
    /\ Called(log, "spawnProjectile")
    /\ \E id \in Acquired(log) :
           /\ id \in Range(active)
           /\ proj[id].x = -20000
           /\ proj[id].y = 640000

\* C24: a projectile that updateProjectiles releases because it has left the
\* playfield margin is neither scored nor penalised: score, combo,
\* comboMultiplier, its dodged flag and the game state are as before, and the
\* instance has moved from active to free
ExitUncounted ==
    [][(currentState = "PLAYING" /\ now' # now)
          => \A id \in Range(active) :
                 id \notin Range(active')
                     => /\ OffScreen(proj'[id])
                        /\ proj'[id].dodged = proj[id].dodged
                        /\ ~proj'[id].active
                        /\ Occurrences(pool', id) = 1
                        /\ Occurrences(pool, id) = 0
                        /\ <<score, combo, comboMultiplier, sessionBest, currentState>>'
                             = <<score, combo, comboMultiplier, sessionBest, currentState>>
                        /\ ~Called(log', "handleDodge")
                        /\ ~Called(log', "handleCollision")
                        /\ ~Called(log', "gameOver")]_vars

\* a projectile has left the screen in the middle of a combo and the points
\* and the combo are still there
ExitUncountedWitness ==
    /\ currentState = "PLAYING"
    /\ combo > 10
    /\ score > 0
    /\ comboMultiplier > 1
    /\ \E id \in Range(pool) :
           /\ log = <<<<"release", id, TRUE>>>>
           /\ OffScreen(proj[id])
           /\ ~proj[id].dodged

\* C25 as stated: after every Player.update the rotor angle is in [0, 2PI):
\* never negative and never 2PI or more
AngleHalfOpen == player # NoPlayer => player.angle \in 0..(TwoPi - 1)

\* C25, amended: after every Player.update the rotor angle is in the closed
\* range [0, 2PI]: never negative and never more than 2PI, and it can be
\* exactly 2PI
AngleClosed == player # NoPlayer => player.angle \in 0..TwoPi

\* the rotor has been turned back below 0 and forward again, and stands at
\* exactly 2PI
AngleClosedWitness ==
    /\ player # NoPlayer
    /\ player.angle = TwoPi
    /\ player.rotationSpeed > 0
    /\ now = 66

\* C26: in a tick with no touch the rotation speed is multiplied by 0.9 and
\* becomes exactly 0 once its magnitude is below 0.1 rad/s; a rotor at speed 0
\* stays at speed 0 with its angle constant; and after 38 ticks without touch
\* the rotor has stopped, from any speed up to 5 rad/s
RotorCoastsToStop ==
    [][(player # NoPlayer /\ now >= CoastTouchUntil /\ now' # now)
          => LET decayed == (Abs(player.rotationSpeed) * 9) \div 10
                 sign == IF player.rotationSpeed < 0 THEN -1 ELSE 1
             IN  /\ Abs(player.rotationSpeed) <= 5000000
                 /\ decayed >= 100000 => player'.rotationSpeed = sign * decayed
                 /\ decayed < 100000 => player'.rotationSpeed = 0
                 /\ player.rotationSpeed = 0
                        => player'.rotationSpeed = 0 /\ player'.angle = player.angle
                 /\ now' >= CoastTouchUntil + 38 * MaxDeltaTime
                        => player'.rotationSpeed = 0]_vars

\* a rotor that was turning at full speed when the finger went up has come to
\* rest away from where it started
RotorCoastsToStopWitness ==
    /\ player # NoPlayer
    /\ now >= CoastTouchUntil + 38 * MaxDeltaTime
    /\ player.rotationSpeed = 0
    /\ player.angle \notin {0, TwoPi}

\* the scores on the stored leaderboard, in its order
BoardScores(storage) ==
    [i \in 1..Len(storage.HighScores) |-> storage.HighScores[i].score]

IsTopTenOf(top, all) ==
    /\ Len(top) = Min(10, Len(all))
    /\ \A i \in 1..(Len(top) - 1) : top[i] >= top[i + 1]
    /\ \A v \in Range(all) \cup Range(top) :
          /\ Occurrences(top, v) <= Occurrences(all, v)
          /\ Occurrences(top, v) < Occurrences(all, v)
                 => \A i \in 1..Len(top) : top[i] >= v

\* C28: a saveScore call returns true exactly for a score within
\* [0, 1,000,000]; a call that returns false leaves the stored leaderboard as
\* it was; after a call that returns true the leaderboard holds the ten
\* highest of its earlier scores and the new one (all of them while there are
\* fewer than ten), in descending order.  As the list starts empty it is at
\* all times the ten highest valid scores saved so far
BoardHoldsTopTen ==
    [][\A i \in 1..Len(log') :
          log'[i][1] = "saveScore"
              => LET s == log'[i][2]
                     returned == log'[i][3]
                 IN  /\ returned = (s >= 0 /\ s <= 1000000)
                     /\ ~returned => localStorage' = localStorage
                     /\ returned
                            => IsTopTenOf(BoardScores(localStorage'),
                                          Append(BoardScores(localStorage), s))
                     /\ Len(localStorage'.HighScores) <= 10]_vars

\* a valid score below all ten on a full leaderboard was saved and did not
\* enter it
BoardHoldsTopTenWitness ==
    /\ log = <<<<"saveScore", 650, TRUE>>>>
    /\ Len(localStorage.HighScores) = 10
    /\ BoardScores(localStorage)[1] = 1000000
    /\ \A i \in 1..10 : BoardScores(localStorage)[i] >= 700

\* C29: after every step the rotor exists when the state is PLAYING or PAUSED
\* and the state is not LEVEL_UP; a step enters PLAYING only by a startGame
\* call or from PAUSED, and enters PAUSED only from PLAYING
RotorExistsInSession ==
    [][/\ currentState' \in {"PLAYING", "PAUSED"} => player' # NoPlayer
       /\ currentState' # "LEVEL_UP"
       /\ (currentState' = "PLAYING" /\ currentState # "PLAYING")
              => Called(log', "startGame") \/ currentState = "PAUSED"
       /\ (currentState' = "PAUSED" /\ currentState # "PAUSED")
              => currentState = "PLAYING"]_vars

\* a session that was started, paused and resumed by the end of the second
\* frame
RotorExistsInSessionWitness ==
    /\ currentState = "PLAYING"
    /\ now = 66
    /\ menuFrames = 2
    /\ ~Called(log, "startGame")
    /\ player # NoPlayer

\* C30: a step changes difficulty only on the settings screen and stays there;
\* the settings screen is left only for the menu; PLAYING is entered from a
\* screen other than the pause screen only by a startGame call; so difficulty
\* is the same from one startGame call to the next, and a step that scores
\* dodges is a step of play that leaves difficulty as it is and awards the
\* points of that difficulty
DifficultyFixedInSession ==
    [][/\ difficulty' # difficulty
              => currentState = "SETTINGS" /\ currentState' = "SETTINGS"
       /\ currentState = "SETTINGS" => currentState' \in {"SETTINGS", "MENU"}
       /\ (currentState' = "PLAYING" /\ currentState \notin {"PLAYING", "PAUSED"})
              => Called(log', "startGame")
       /\ (currentState' = "PAUSED" /\ currentState # "PAUSED")
              => currentState = "PLAYING"
       /\ Called(log', "handleDodge")
              => /\ currentState = "PLAYING"
                 /\ difficulty' = difficulty
                 /\ LET dodges == {i \in 1..Len(log') :
                                       log'[i][1] = "handleDodge" /\ log'[i][3]}
                    IN  score' = score + PointsFor(combo, Cardinality(dodges),
                                                   difficulty)]_vars

\* the first dodge of a session on easy, after a session on medium that was
\* paused to change the setting
DifficultyFixedInSessionWitness ==
    /\ currentState = "PLAYING"
    /\ Called(log, "handleDodge")
    /\ difficulty = "easy"
    /\ score = 10
    /\ sessionBest = 11

====
